---- MODULE Spec2Model ----
(***************************************************************************)
(* ClusterGate: check resolution, scheduling and aggregation engine.       *)
(*                                                                         *)
(* Durations and instants are integers in an abstract unit in which the    *)
(* controller's fallback interval (60 s) is one unit.                      *)
(***************************************************************************)
EXTENDS Integers, Sequences, FiniteSets, TLC

(***************************************************************************)
(* Values of the API types.                                                *)
(***************************************************************************)
\* A nil pointer (*Severity, *bool, *apiextensionsv1.JSON, json.RawMessage).
Nil == "<nil>"
\* A nil *metav1.Duration / *metav1.Time.
NilTime == -1

SeverityCritical == "critical"
SeverityWarning == "warning"
SeverityInfo == "info"

\* const defaultInterval = 60 * time.Second
defaultInterval == 1

(***************************************************************************)
(* Bounds of the model.                                                    *)
(***************************************************************************)
\* Largest interval override a ref carries.
MaxInterval == 2
\* Largest instant at which the scheduler is called.
MaxTime == 2
\* Longest resolved list handed to the scheduler.
MaxChecks == 2
\* Longest list of prior status rows handed to the scheduler.
MaxRows == 2
\* Most events of the environment of the controller: ticks of the wall
\* clock, edits and deletions of the ClusterReadiness object, failed calls
\* of the API server.
MaxEvents == 2

(***************************************************************************)
(* Input domains.                                                          *)
(***************************************************************************)
ProfileNames == {"A", "B"}
\* The ways a ref names its check: a builtin, a GateCheck, or (rejected by
\* the CRD schema but handled defensively) both.
RefNamings ==
    { [Name |-> "dns", GateCheckRef |-> ""],
      [Name |-> "", GateCheckRef |-> "ingress"],
      [Name |-> "dns", GateCheckRef |-> "ingress"] }
RefSeverities == {Nil, SeverityCritical, SeverityWarning}
RefCategories == {"", "networking"}
RefIntervals == {NilTime} \cup (2..MaxInterval)
RefConfigs == {Nil, "{a}"}

\* ProfileCheckRef and CheckSpec have the same shape.  A ref with
\* enabled=false is only ever asked for its identifier, so its other fields
\* are left unset.
CheckRefs ==
    { [Name |-> n.Name, GateCheckRef |-> n.GateCheckRef, Severity |-> s,
       Category |-> c, Interval |-> i, Enabled |-> e, Config |-> g] :
        n \in RefNamings, s \in RefSeverities, c \in RefCategories,
        i \in RefIntervals, e \in {Nil, "true"}, g \in RefConfigs }
    \cup
    { [Name |-> n.Name, GateCheckRef |-> n.GateCheckRef, Severity |-> Nil,
       Category |-> "", Interval |-> NilTime, Enabled |-> "false",
       Config |-> Nil] : n \in RefNamings }

\* The ref that sets nothing.
NoRef == [Name |-> "", GateCheckRef |-> "", Severity |-> Nil, Category |-> "",
          Interval |-> NilTime, Enabled |-> Nil, Config |-> Nil]

(***************************************************************************)
(* api/v1alpha1: helpers of ProfileCheckRef and CheckSpec.                 *)
(***************************************************************************)
IsEnabled(r) == IF r.Enabled = Nil THEN TRUE ELSE r.Enabled = "true"

Identifier(r) ==
    IF r.GateCheckRef # "" THEN "dynamic:" \o r.GateCheckRef ELSE r.Name

(***************************************************************************)
(* internal/controller/resolver.go                                         *)
(***************************************************************************)
inlineIdentifier(cs) ==
    IF cs.GateCheckRef # "" THEN "dynamic:" \o cs.GateCheckRef ELSE cs.Name

\* The part of resolveProfileCheckRef and resolveInlineCheck that the two
\* share: everything except the Source.
resolveRef(ref, source, dflt) ==
    [ Source |-> source,
      Identifier |-> IF ref.GateCheckRef # ""
                     THEN "dynamic:" \o ref.GateCheckRef ELSE ref.Name,
      IsBuiltin |-> ref.GateCheckRef = "",
      BuiltinName |-> IF ref.GateCheckRef # "" THEN "" ELSE ref.Name,
      GateCheckName |-> IF ref.GateCheckRef # "" THEN ref.GateCheckRef ELSE "",
      Severity |-> IF ref.Severity # Nil THEN ref.Severity ELSE "",
      Category |-> ref.Category,
      Interval |-> IF ref.Interval # NilTime /\ ref.Interval > 0
                   THEN ref.Interval ELSE dflt,
      Config |-> IF ref.Config # Nil THEN ref.Config ELSE Nil ]

resolveProfileCheckRef(ref, profileName, dflt) ==
    resolveRef(ref, "profile:" \o profileName, dflt)

resolveInlineCheck(cs, dflt) == resolveRef(cs, "inline", dflt)

\* mergeOverrides without the inheritance of Severity.
mergeOverridesNoSeverity(base, override) ==
    [ override EXCEPT
        !.Category = IF override.Category = "" THEN base.Category ELSE @,
        !.Config = IF override.Config = Nil THEN base.Config ELSE @ ]

mergeOverrides(base, override) ==
    [ override EXCEPT
        !.Severity = IF override.Severity = "" THEN base.Severity ELSE @,
        !.Category = IF override.Category = "" THEN base.Category ELSE @,
        !.Config = IF override.Config = Nil THEN base.Config ELSE @ ]

\* Go map operations on the working map of ResolveChecks.
MapDelete(m, k) == [i \in DOMAIN m \ {k} |-> m[i]]
MapPut(m, k, v) == [i \in DOMAIN m \cup {k} |-> IF i = k THEN v ELSE m[i]]
EmptyMap == [i \in {} |-> 0]

\* profileCheckStep that leaves an entry an earlier ref added in place.
profileCheckStepKeepFirst(m, checkRef, profileName, dflt) ==
    IF ~IsEnabled(checkRef)
    THEN MapDelete(m, Identifier(checkRef))
    ELSE LET rc == resolveProfileCheckRef(checkRef, profileName, dflt)
         IN  IF rc.Identifier \in DOMAIN m THEN m
             ELSE MapPut(m, rc.Identifier, rc)

\* profileCheckStep that skips a disabled ref without deleting an entry.
profileCheckStepSkipDisabled(m, checkRef, profileName, dflt) ==
    IF ~IsEnabled(checkRef)
    THEN m
    ELSE LET rc == resolveProfileCheckRef(checkRef, profileName, dflt)
         IN  MapPut(m, rc.Identifier, rc)

\* One iteration of the loop over profile.Spec.Checks.
profileCheckStep(m, checkRef, profileName, dflt) ==
    IF ~IsEnabled(checkRef)
    THEN MapDelete(m, Identifier(checkRef))
    ELSE LET rc == resolveProfileCheckRef(checkRef, profileName, dflt)
         IN  MapPut(m, rc.Identifier, rc)

\* inlineCheckStep that keys the working map by cs.Name.
inlineCheckStepByName(m, cs, dflt) ==
    IF ~IsEnabled(cs)
    THEN MapDelete(m, cs.Name)
    ELSE LET rc == resolveInlineCheck(cs, dflt)
             merged == IF cs.Name \in DOMAIN m
                       THEN mergeOverrides(m[cs.Name], rc) ELSE rc
         IN  MapPut(m, cs.Name, merged)

\* inlineCheckStep that replaces the entry of a profile instead of merging.
inlineCheckStepOverwrite(m, cs, dflt) ==
    IF ~IsEnabled(cs)
    THEN MapDelete(m, inlineIdentifier(cs))
    ELSE LET rc == resolveInlineCheck(cs, dflt)
         IN  MapPut(m, rc.Identifier, rc)

\* inlineCheckStep that overrides an entry a profile added and adds none.
inlineCheckStepOnlyOverride(m, cs, dflt) ==
    IF ~IsEnabled(cs)
    THEN MapDelete(m, inlineIdentifier(cs))
    ELSE LET rc == resolveInlineCheck(cs, dflt)
         IN  IF rc.Identifier \in DOMAIN m
             THEN MapPut(m, rc.Identifier, mergeOverrides(m[rc.Identifier], rc))
             ELSE m

\* One iteration of the loop over spec.Checks.
inlineCheckStep(m, cs, dflt) ==
    IF ~IsEnabled(cs)
    THEN MapDelete(m, inlineIdentifier(cs))
    ELSE LET rc == resolveInlineCheck(cs, dflt)
             merged == IF rc.Identifier \in DOMAIN m
                       THEN mergeOverrides(m[rc.Identifier], rc) ELSE rc
         IN  MapPut(m, rc.Identifier, merged)

\* The slices a Go map can be converted to: its values in any order.
MapValueSeqs(m) ==
    { s \in [1..Cardinality(DOMAIN m) -> {m[k] : k \in DOMAIN m}] :
        \A k \in DOMAIN m : \E i \in DOMAIN s : s[i] = m[k] }

\* The loop over profile.Spec.Checks, from index i on.
RECURSIVE profileChecksLoop(_, _, _, _, _)
profileChecksLoop(m, checks, i, profileName, dflt) ==
    IF i > Len(checks) THEN m
    ELSE profileChecksLoop(profileCheckStep(m, checks[i], profileName, dflt),
                           checks, i + 1, profileName, dflt)

\* profilesLoop that skips a profile it cannot fetch.
RECURSIVE profilesLoopSkipMissing(_, _, _, _, _)
profilesLoopSkipMissing(m, profileRefs, i, store, dflt) ==
    IF i > Len(profileRefs) THEN [err |-> FALSE, m |-> m]
    ELSE IF profileRefs[i].Name \notin DOMAIN store
         THEN profilesLoopSkipMissing(m, profileRefs, i + 1, store, dflt)
         ELSE profilesLoopSkipMissing(
                  profileChecksLoop(m, store[profileRefs[i].Name], 1,
                                    profileRefs[i].Name, dflt),
                  profileRefs, i + 1, store, dflt)

\* The loop over spec.Profiles, from index i on; store maps the names of the
\* GateProfiles that exist to their spec.checks.  A failed c.Get ends the
\* call with an error.
RECURSIVE profilesLoop(_, _, _, _, _)
profilesLoop(m, profileRefs, i, store, dflt) ==
    IF i > Len(profileRefs) THEN [err |-> FALSE, m |-> m]
    ELSE IF profileRefs[i].Name \notin DOMAIN store
         THEN [err |-> TRUE, m |-> EmptyMap]
         ELSE profilesLoop(
                  profileChecksLoop(m, store[profileRefs[i].Name], 1,
                                    profileRefs[i].Name, dflt),
                  profileRefs, i + 1, store, dflt)

\* The loop over spec.Checks, from index i on.
RECURSIVE inlineLoop(_, _, _, _)
inlineLoop(m, cs, i, dflt) ==
    IF i > Len(cs) THEN m
    ELSE inlineLoop(inlineCheckStep(m, cs[i], dflt), cs, i + 1, dflt)

\* ResolveChecks up to the conversion to a slice: the error flag and the
\* working map.
ResolveChecksMap(spec, store, dflt) ==
    LET afterProfiles == profilesLoop(EmptyMap, spec.Profiles, 1, store, dflt)
    IN  IF afterProfiles.err THEN afterProfiles
        ELSE [err |-> FALSE,
              m |-> inlineLoop(afterProfiles.m, spec.Checks, 1, dflt)]

\* The values ResolveChecks can return: (nil, err), or any ordering of the
\* working map's values.
ResolveChecks(spec, store, dflt) ==
    LET r == ResolveChecksMap(spec, store, dflt)
    IN  IF r.err THEN {[err |-> TRUE, checks |-> <<>>]}
        ELSE {[err |-> FALSE, checks |-> s] : s \in MapValueSeqs(r.m)}

(***************************************************************************)
(* internal/controller: CheckSchedule.                                     *)
(*                                                                         *)
(* A CheckStatus row is [Name, Source, Status, Severity, Message,          *)
(* LastChecked]; LastChecked is NilTime when absent.  time.Time.Sub is the *)
(* integer difference: the instants of the model are far from the range    *)
(* in which it saturates.                                                  *)
(***************************************************************************)
\* statusMap[s.Name] = s for each row in order: the last row of a name wins.
RECURSIVE statusMapOf(_, _, _)
statusMapOf(m, existingStatuses, i) ==
    IF i > Len(existingStatuses) THEN m
    ELSE statusMapOf(MapPut(m, existingStatuses[i].Name, existingStatuses[i]),
                     existingStatuses, i + 1)

\* shortestInterval that returns the interval of the first check.
shortestIntervalFirst(checks) ==
    IF Len(checks) = 0 THEN defaultInterval ELSE checks[1].Interval

RECURSIVE shortestFrom(_, _, _)
shortestFrom(shortest, checks, i) ==
    IF i > Len(checks) THEN shortest
    ELSE shortestFrom(IF checks[i].Interval < shortest
                      THEN checks[i].Interval ELSE shortest, checks, i + 1)

shortestInterval(checks) ==
    IF Len(checks) = 0 THEN defaultInterval
    ELSE shortestFrom(checks[1].Interval, checks, 2)

\* checkScheduleStep without the continue of the stale branch: a stale
\* check is run and its row carried as well.
checkScheduleStepFallThrough(acc, rc, statusMap, t) ==
    IF rc.Identifier \notin DOMAIN statusMap
       \/ statusMap[rc.Identifier].LastChecked = NilTime
    THEN [acc EXCEPT !.due = Append(@, rc)]
    ELSE LET existing == statusMap[rc.Identifier]
             elapsed == t - existing.LastChecked
             remaining == rc.Interval - elapsed
         IN  [due |-> IF elapsed >= rc.Interval THEN Append(acc.due, rc)
                      ELSE acc.due,
              carried |-> Append(acc.carried, existing),
              nextRequeue |->
                  IF acc.nextRequeue = 0 \/ remaining < acc.nextRequeue
                  THEN remaining ELSE acc.nextRequeue]

\* checkScheduleStep with an exclusive boundary: elapsed > rc.Interval.
checkScheduleStepExclusive(acc, rc, statusMap, t) ==
    IF rc.Identifier \notin DOMAIN statusMap
       \/ statusMap[rc.Identifier].LastChecked = NilTime
    THEN [acc EXCEPT !.due = Append(@, rc)]
    ELSE LET existing == statusMap[rc.Identifier]
             elapsed == t - existing.LastChecked
             remaining == rc.Interval - elapsed
         IN  IF elapsed > rc.Interval
             THEN [acc EXCEPT !.due = Append(@, rc)]
             ELSE [due |-> acc.due,
                   carried |-> Append(acc.carried, existing),
                   nextRequeue |->
                       IF acc.nextRequeue = 0 \/ remaining < acc.nextRequeue
                       THEN remaining ELSE acc.nextRequeue]

\* checkScheduleStep that keeps the remaining time of the last carried
\* check instead of the least one.
checkScheduleStepLastRemaining(acc, rc, statusMap, t) ==
    IF rc.Identifier \notin DOMAIN statusMap
       \/ statusMap[rc.Identifier].LastChecked = NilTime
    THEN [acc EXCEPT !.due = Append(@, rc)]
    ELSE LET existing == statusMap[rc.Identifier]
             elapsed == t - existing.LastChecked
             remaining == rc.Interval - elapsed
         IN  IF elapsed >= rc.Interval
             THEN [acc EXCEPT !.due = Append(@, rc)]
             ELSE [due |-> acc.due,
                   carried |-> Append(acc.carried, existing),
                   nextRequeue |-> remaining]

\* One iteration of the loop over resolved; acc holds due, carried and
\* nextRequeue.
checkScheduleStep(acc, rc, statusMap, t) ==
    IF rc.Identifier \notin DOMAIN statusMap
       \/ statusMap[rc.Identifier].LastChecked = NilTime
    THEN [acc EXCEPT !.due = Append(@, rc)]
    ELSE LET existing == statusMap[rc.Identifier]
             elapsed == t - existing.LastChecked
             remaining == rc.Interval - elapsed
         IN  IF elapsed >= rc.Interval
             THEN [acc EXCEPT !.due = Append(@, rc)]
             ELSE [due |-> acc.due,
                   carried |-> Append(acc.carried, existing),
                   nextRequeue |->
                       IF acc.nextRequeue = 0 \/ remaining < acc.nextRequeue
                       THEN remaining ELSE acc.nextRequeue]

RECURSIVE checkScheduleLoop(_, _, _, _, _)
checkScheduleLoop(acc, resolvedList, i, statusMap, t) ==
    IF i > Len(resolvedList) THEN acc
    ELSE checkScheduleLoop(checkScheduleStep(acc, resolvedList[i], statusMap, t),
                           resolvedList, i + 1, statusMap, t)

\* CheckSchedule that carries every prior row that is not due, resolved or
\* not.
CheckScheduleCarryAll(resolvedList, existingStatuses, t) ==
    LET statusMap == statusMapOf(EmptyMap, existingStatuses, 1)
        acc == checkScheduleLoop(
                   [due |-> <<>>, carried |-> <<>>, nextRequeue |-> 0],
                   resolvedList, 1, statusMap, t)
        all == [acc EXCEPT !.carried =
                   SelectSeq(existingStatuses,
                             LAMBDA row : \A i \in DOMAIN acc.due :
                                             acc.due[i].Identifier # row.Name)]
    IN  IF all.nextRequeue = 0 /\ Len(resolvedList) > 0
        THEN [all EXCEPT !.nextRequeue = shortestInterval(resolvedList)]
        ELSE all

\* CheckSchedule that finds every resolved check due.
CheckScheduleAllDue(resolvedList, existingStatuses, t) ==
    [due |-> resolvedList, carried |-> <<>>,
     nextRequeue |-> IF Len(resolvedList) > 0
                     THEN shortestInterval(resolvedList) ELSE 0]

\* CheckSchedule that requeues after the shortest interval whatever was
\* carried.
CheckScheduleShortestInterval(resolvedList, existingStatuses, t) ==
    LET statusMap == statusMapOf(EmptyMap, existingStatuses, 1)
        acc == checkScheduleLoop(
                   [due |-> <<>>, carried |-> <<>>, nextRequeue |-> 0],
                   resolvedList, 1, statusMap, t)
    IN  IF Len(resolvedList) > 0
        THEN [acc EXCEPT !.nextRequeue = shortestInterval(resolvedList)]
        ELSE acc

CheckSchedule(resolvedList, existingStatuses, t) ==
    LET statusMap == statusMapOf(EmptyMap, existingStatuses, 1)
        acc == checkScheduleLoop(
                   [due |-> <<>>, carried |-> <<>>, nextRequeue |-> 0],
                   resolvedList, 1, statusMap, t)
    IN  IF acc.nextRequeue = 0 /\ Len(resolvedList) > 0
        THEN [acc EXCEPT !.nextRequeue = shortestInterval(resolvedList)]
        ELSE acc

(***************************************************************************)
(* internal/checks: the registry of built-in checkers, as filled by the    *)
(* init functions of the checker files.  "etcd" names no registered        *)
(* checker.                                                                *)
(***************************************************************************)
registry ==
    [n \in {"dns"} |->
        [DefaultSeverity |-> SeverityCritical, DefaultCategory |-> "networking"]]

(***************************************************************************)
(* internal/controller/resolver.go: ResolveSeverityAndCategory.  gcs is    *)
(* the set of GateCheck objects, name -> spec.                             *)
(***************************************************************************)
ResolveSeverityAndCategory(rc, gcs) ==
    LET sev == rc.Severity
        cat == rc.Category
    IN  IF rc.IsBuiltin
        THEN IF rc.BuiltinName \in DOMAIN registry
             THEN [sev |-> IF sev = ""
                           THEN registry[rc.BuiltinName].DefaultSeverity
                           ELSE sev,
                   cat |-> IF cat = ""
                           THEN registry[rc.BuiltinName].DefaultCategory
                           ELSE cat]
             ELSE [sev |-> IF sev = "" THEN "critical" ELSE sev,
                   cat |-> IF cat = "" THEN "general" ELSE cat]
        ELSE LET found == rc.GateCheckName \in DOMAIN gcs
                 sev1 == IF found /\ sev = ""
                         THEN gcs[rc.GateCheckName].Severity ELSE sev
                 cat1 == IF found /\ cat = ""
                         THEN gcs[rc.GateCheckName].Category ELSE cat
             IN  [sev |-> IF sev1 = "" THEN "critical" ELSE sev1,
                  cat |-> IF cat1 = "" THEN "custom" ELSE cat1]

(***************************************************************************)
(* internal/controller/clusterreadiness_controller.go: the helpers of      *)
(* Reconcile.                                                              *)
(***************************************************************************)
\* What a checker or the dynamic executor returns: (Result, error).
Outcomes ==
    { [Ready |-> TRUE, Message |-> "ok", err |-> FALSE],
      [Ready |-> FALSE, Message |-> "failed", err |-> FALSE],
      [Ready |-> TRUE, Message |-> "ok", err |-> TRUE] }

runBuiltinCheck(rc, sev, cat, o) ==
    IF rc.BuiltinName \notin DOMAIN registry
    THEN [name |-> rc.Identifier, severity |-> sev, category |-> cat,
          source |-> rc.Source, ready |-> FALSE,
          message |-> "unknown check: " \o rc.BuiltinName, err |-> FALSE]
    ELSE [name |-> rc.Identifier, severity |-> sev, category |-> cat,
          source |-> rc.Source, ready |-> o.Ready, message |-> o.Message,
          err |-> o.err]

\* The check types of a GateCheck spec; at most one is populated, and
\* NoCheckType stands for a spec with none.
CheckTypes ==
    {"podCheck", "httpCheck", "resourceCheck", "promqlCheck", "scriptCheck"}

NoCheckType == ""

\* Executor.Execute where a spec with no check type passes.
ExecuteDefaultPasses(spec, o) ==
    IF spec.CheckType \in CheckTypes THEN o
    ELSE [Ready |-> TRUE, Message |-> "ok", err |-> FALSE]

\* Executor.Execute: the switch over the check types; o is what the check
\* of the populated type returns.
Execute(spec, o) ==
    IF spec.CheckType \in CheckTypes THEN o
    ELSE [Ready |-> FALSE, Message |-> "", err |-> TRUE]

runResolvedDynamicCheck(rc, sev, cat, gcs, o) ==
    IF rc.GateCheckName \notin DOMAIN gcs
    THEN [name |-> rc.Identifier, severity |-> sev, category |-> cat,
          source |-> rc.Source, ready |-> FALSE,
          message |-> "GateCheck CR not found: " \o rc.GateCheckName,
          err |-> FALSE]
    ELSE LET r == Execute(gcs[rc.GateCheckName], o)
         IN  [name |-> rc.Identifier, severity |-> sev, category |-> cat,
              source |-> rc.Source, ready |-> r.Ready, message |-> r.Message,
              err |-> r.err]

\* The body of one goroutine of Reconcile.
runCheck(rc, gcs, o) ==
    LET sc == ResolveSeverityAndCategory(rc, gcs)
    IN  IF rc.IsBuiltin
        THEN runBuiltinCheck(rc, sc.sev, sc.cat, o)
        ELSE runResolvedDynamicCheck(rc, sc.sev, sc.cat, gcs, o)

\* results := make([]checkResult, len(dueChecks)): a slot holds the zero
\* checkResult until its goroutine writes it.
zeroCheckResult ==
    [name |-> "", severity |-> "", category |-> "", source |-> "",
     ready |-> FALSE, message |-> "", err |-> FALSE]

slotOf(slots, i) == IF slots[i] = <<>> THEN zeroCheckResult ELSE slots[i][1]

\* Reconcile without the wait for its goroutines.
wgWaitNone(slots) == TRUE

\* wg.Wait() returns when every goroutine has called wg.Done().
wgWait(slots) == \A i \in DOMAIN slots : slots[i] # <<>>

ZeroSummary ==
    [Total |-> 0, Passing |-> 0, Failing |-> 0, CriticalTotal |-> 0,
     CriticalPassing |-> 0, WarningTotal |-> 0, WarningFailing |-> 0]

newCategoryAgg(category) ==
    [category |-> category, criticalFailing |-> FALSE,
     warningFailing |-> FALSE, total |-> 0, passing |-> 0, failing |-> 0,
     checks |-> <<>>]

\* aggregateCheck that counts a warning only when it fails.
aggregateCheckFailingWarnings(agg, severity, category, ready) ==
    LET s0 == agg.summary
        s1 == [s0 EXCEPT !.Total = @ + 1,
                         !.Passing = IF ready THEN @ + 1 ELSE @,
                         !.Failing = IF ready THEN @ ELSE @ + 1]
        s2 == CASE severity = SeverityCritical ->
                      [s1 EXCEPT !.CriticalTotal = @ + 1,
                                 !.CriticalPassing = IF ready THEN @ + 1 ELSE @]
                [] severity = SeverityWarning ->
                      [s1 EXCEPT !.WarningTotal = IF ready THEN @ ELSE @ + 1,
                                 !.WarningFailing = IF ready THEN @ ELSE @ + 1]
                [] OTHER -> s1
        c0 == IF category \in DOMAIN agg.categoryMap
              THEN agg.categoryMap[category] ELSE newCategoryAgg(category)
        c1 == [c0 EXCEPT
                 !.total = @ + 1,
                 !.passing = IF ready THEN @ + 1 ELSE @,
                 !.failing = IF ready THEN @ ELSE @ + 1,
                 !.criticalFailing =
                     IF ~ready /\ severity = SeverityCritical THEN TRUE ELSE @,
                 !.warningFailing =
                     IF ~ready /\ severity = SeverityWarning THEN TRUE ELSE @]
    IN  [summary |-> s2, categoryMap |-> MapPut(agg.categoryMap, category, c1)]

\* aggregateCheck: agg holds summary and categoryMap.
aggregateCheck(agg, severity, category, ready) ==
    LET s0 == agg.summary
        s1 == [s0 EXCEPT !.Total = @ + 1,
                         !.Passing = IF ready THEN @ + 1 ELSE @,
                         !.Failing = IF ready THEN @ ELSE @ + 1]
        s2 == CASE severity = SeverityCritical ->
                      [s1 EXCEPT !.CriticalTotal = @ + 1,
                                 !.CriticalPassing = IF ready THEN @ + 1 ELSE @]
                [] severity = SeverityWarning ->
                      [s1 EXCEPT !.WarningTotal = @ + 1,
                                 !.WarningFailing = IF ready THEN @ ELSE @ + 1]
                [] OTHER -> s1
        c0 == IF category \in DOMAIN agg.categoryMap
              THEN agg.categoryMap[category] ELSE newCategoryAgg(category)
        c1 == [c0 EXCEPT
                 !.total = @ + 1,
                 !.passing = IF ready THEN @ + 1 ELSE @,
                 !.failing = IF ready THEN @ ELSE @ + 1,
                 !.criticalFailing =
                     IF ~ready /\ severity = SeverityCritical THEN TRUE ELSE @,
                 !.warningFailing =
                     IF ~ready /\ severity = SeverityWarning THEN TRUE ELSE @]
    IN  [summary |-> s2, categoryMap |-> MapPut(agg.categoryMap, category, c1)]

appendCheck(categoryMap, category, cs) ==
    [categoryMap EXCEPT ![category].checks = Append(@, cs)]

\* The name of the one ClusterReadiness object (req.Name).
ClusterName == "cluster"

\* processResult that drops a check whose run returned an error.
processResultDropErrors(acc, res, t) ==
    IF res.err THEN acc
    ELSE LET status == IF res.ready THEN "Passing" ELSE "Failing"
             cs == [Name |-> res.name, Source |-> res.source,
                    Status |-> status, Severity |-> res.severity,
                    Message |-> res.message, LastChecked |-> t]
             agg == aggregateCheck([summary |-> acc.summary,
                                    categoryMap |-> acc.categoryMap],
                                   res.severity, res.category, res.ready)
         IN  [summary |-> agg.summary,
              categoryMap |-> appendCheck(agg.categoryMap, res.category, cs),
              healthChecks |->
                  MapPut(acc.healthChecks, res.name,
                         [Status |-> status, Message |-> res.message,
                          Severity |-> res.severity,
                          Category |-> res.category]),
              CheckReady |->
                  MapPut(acc.CheckReady,
                         <<res.name, ClusterName, res.severity, res.category>>,
                         IF res.ready THEN 1 ELSE 0)]

\* One iteration of the loop over the newly executed results.  acc holds
\* summary, categoryMap, healthChecks and the CheckReady gauge.
processResult(acc, res, t) ==
    LET ready == IF res.err THEN FALSE ELSE res.ready
        message == IF res.err THEN "check error: boom" ELSE res.message
        status == IF ready THEN "Passing" ELSE "Failing"
        cs == [Name |-> res.name, Source |-> res.source, Status |-> status,
               Severity |-> res.severity, Message |-> message,
               LastChecked |-> t]
        agg == aggregateCheck([summary |-> acc.summary,
                               categoryMap |-> acc.categoryMap],
                              res.severity, res.category, ready)
    IN  [summary |-> agg.summary,
         categoryMap |-> appendCheck(agg.categoryMap, res.category, cs),
         healthChecks |->
             MapPut(acc.healthChecks, res.name,
                    [Status |-> status, Message |-> message,
                     Severity |-> res.severity, Category |-> res.category]),
         CheckReady |->
             MapPut(acc.CheckReady,
                    <<res.name, ClusterName, res.severity, res.category>>,
                    IF ready THEN 1 ELSE 0)]

\* A lookup in a Go map[string]string: the zero value for a missing key.
Lookup(m, k) == IF k \in DOMAIN m THEN m[k] ELSE ""

\* processCarried that leaves the carried check out of the store's map.
processCarriedNotInStore(acc, cs, existingCategoryLookup) ==
    LET cat == Lookup(existingCategoryLookup, cs.Name)
        ready == cs.Status = "Passing"
        agg == aggregateCheck([summary |-> acc.summary,
                               categoryMap |-> acc.categoryMap],
                              cs.Severity, cat, ready)
    IN  [summary |-> agg.summary,
         categoryMap |-> appendCheck(agg.categoryMap, cat, cs),
         healthChecks |-> acc.healthChecks,
         CheckReady |-> acc.CheckReady]

\* processCarried that rebuilds the row without its lastChecked.
processCarriedNoTimestamp(acc, cs, existingCategoryLookup) ==
    LET cat == Lookup(existingCategoryLookup, cs.Name)
        ready == cs.Status = "Passing"
        agg == aggregateCheck([summary |-> acc.summary,
                               categoryMap |-> acc.categoryMap],
                              cs.Severity, cat, ready)
    IN  [summary |-> agg.summary,
         categoryMap |->
             appendCheck(agg.categoryMap, cat,
                         [cs EXCEPT !.LastChecked = NilTime]),
         healthChecks |->
             MapPut(acc.healthChecks, cs.Name,
                    [Status |-> cs.Status, Message |-> cs.Message,
                     Severity |-> cs.Severity, Category |-> cat]),
         CheckReady |-> acc.CheckReady]

\* processCarried that counts every carried row as a critical check.
processCarriedAsCritical(acc, cs, existingCategoryLookup) ==
    LET cat == Lookup(existingCategoryLookup, cs.Name)
        ready == cs.Status = "Passing"
        agg == aggregateCheck([summary |-> acc.summary,
                               categoryMap |-> acc.categoryMap],
                              SeverityCritical, cat, ready)
    IN  [summary |-> agg.summary,
         categoryMap |-> appendCheck(agg.categoryMap, cat, cs),
         healthChecks |->
             MapPut(acc.healthChecks, cs.Name,
                    [Status |-> cs.Status, Message |-> cs.Message,
                     Severity |-> cs.Severity, Category |-> cat]),
         CheckReady |-> acc.CheckReady]

\* One iteration of the loop over the carried statuses.
processCarried(acc, cs, existingCategoryLookup) ==
    LET cat == Lookup(existingCategoryLookup, cs.Name)
        ready == cs.Status = "Passing"
        agg == aggregateCheck([summary |-> acc.summary,
                               categoryMap |-> acc.categoryMap],
                              cs.Severity, cat, ready)
    IN  [summary |-> agg.summary,
         categoryMap |-> appendCheck(agg.categoryMap, cat, cs),
         healthChecks |->
             MapPut(acc.healthChecks, cs.Name,
                    [Status |-> cs.Status, Message |-> cs.Message,
                     Severity |-> cs.Severity, Category |-> cat]),
         CheckReady |-> acc.CheckReady]

RECURSIVE resultsLoop(_, _, _, _)
resultsLoop(acc, results, i, t) ==
    IF i > Len(results) THEN acc
    ELSE resultsLoop(processResult(acc, results[i], t), results, i + 1, t)

RECURSIVE carriedLoop(_, _, _, _)
carriedLoop(acc, carriedStatuses, i, existingCategoryLookup) ==
    IF i > Len(carriedStatuses) THEN acc
    ELSE carriedLoop(processCarried(acc, carriedStatuses[i],
                                    existingCategoryLookup),
                     carriedStatuses, i + 1, existingCategoryLookup)

\* The byte order of the strings that name checks and categories.
StringOrder ==
    <<"", "custom", "dns", "dynamic:ingress", "etcd", "general", "networking">>

StringLess(a, b) ==
    LET rank(s) == CHOOSE i \in 1..Len(StringOrder) : StringOrder[i] = s
    IN  rank(a) < rank(b)

\* categoryStatusOf where any failing row, whatever its severity, degrades
\* the category.
categoryStatusOfAnyFailing(agg) ==
    [Category |-> agg.category,
     State |-> IF agg.criticalFailing THEN "Unhealthy"
               ELSE IF agg.failing > 0 THEN "Degraded" ELSE "Healthy",
     Checks |-> SortSeq(agg.checks, LAMBDA a, b : StringLess(a.Name, b.Name)),
     Total |-> agg.total, Passing |-> agg.passing, Failing |-> agg.failing]

\* categoryStatusOf without the sort of agg.checks: the rows stay in the
\* order in which they were appended.
categoryStatusOfUnsorted(agg) ==
    [Category |-> agg.category,
     State |-> IF agg.criticalFailing THEN "Unhealthy"
               ELSE IF agg.warningFailing THEN "Degraded" ELSE "Healthy",
     Checks |-> agg.checks,
     Total |-> agg.total, Passing |-> agg.passing, Failing |-> agg.failing]

\* The CategoryStatus built from one categoryAgg.
categoryStatusOf(agg) ==
    [Category |-> agg.category,
     State |-> IF agg.criticalFailing THEN "Unhealthy"
               ELSE IF agg.warningFailing THEN "Degraded" ELSE "Healthy",
     Checks |-> SortSeq(agg.checks, LAMBDA a, b : StringLess(a.Name, b.Name)),
     Total |-> agg.total, Passing |-> agg.passing, Failing |-> agg.failing]

\* The categories slice: one CategoryStatus per categoryAgg, in the order
\* of the final sort (the keys are distinct, so that order is unique).
buildCategories(categoryMap) ==
    LET anyOrder == CHOOSE s \in MapValueSeqs(categoryMap) : TRUE
    IN  SortSeq([i \in 1..Len(anyOrder) |-> categoryStatusOf(anyOrder[i])],
                LAMBDA a, b : StringLess(a.Category, b.Category))

\* The loop over categoryMap with the write of the gauge left out.
setCategoryReadyNotWritten(gauge, categoryMap) == gauge

\* The CategoryReady gauge after the loop over categoryMap.
setCategoryReady(gauge, categoryMap) ==
    [k \in DOMAIN gauge \cup {<<c, ClusterName>> : c \in DOMAIN categoryMap} |->
        IF k[1] \in DOMAIN categoryMap /\ k[2] = ClusterName
        THEN (IF categoryMap[k[1]].criticalFailing THEN 0 ELSE 1)
        ELSE gauge[k]]

\* healthState with the test on the warnings first.
healthStateOfWarningFirst(summary) ==
    IF summary.WarningFailing > 0 THEN "Degraded"
    ELSE IF summary.CriticalTotal # summary.CriticalPassing THEN "Unhealthy"
    ELSE "Healthy"

\* The cluster health state computed from the summary.
healthStateOfNoChecksUnhealthy(summary) ==
    IF summary.Total = 0 \/ summary.CriticalTotal # summary.CriticalPassing
    THEN "Unhealthy"
    ELSE IF summary.WarningFailing > 0 THEN "Degraded"
    ELSE "Healthy"

healthStateOf(summary) ==
    LET allCriticalReady == summary.CriticalTotal = summary.CriticalPassing
    IN  IF ~allCriticalReady THEN "Unhealthy"
        ELSE IF summary.WarningFailing > 0 THEN "Degraded"
        ELSE "Healthy"

HealthStates == {"Healthy", "Degraded", "Unhealthy"}

\* The flattening of the existing categories: the rows, and name -> category.
RECURSIVE flattenChecks(_, _)
flattenChecks(categories, i) ==
    IF i > Len(categories) THEN <<>>
    ELSE categories[i].Checks \o flattenChecks(categories, i + 1)

RECURSIVE categoryLookupOf(_, _, _)
categoryLookupOf(m, categories, i) ==
    IF i > Len(categories) THEN m
    ELSE categoryLookupOf(
             [n \in DOMAIN m
                    \cup {categories[i].Checks[j].Name :
                            j \in DOMAIN categories[i].Checks} |->
                 IF \E j \in DOMAIN categories[i].Checks :
                        categories[i].Checks[j].Name = n
                 THEN categories[i].Category ELSE m[n]],
             categories, i + 1)

\* meta.SetStatusCondition, keeping the type, status and reason.
SetStatusCondition(conditions, type, status, reason) ==
    MapPut(conditions, type, [Status |-> status, Reason |-> reason])

(***************************************************************************)
(* part_015 (package server): ReadinessState.                              *)
(***************************************************************************)
\* Update that keeps the state of a record it already holds.
StoreUpdateKeepState(clusters, name, state, checks, summary, categorySummaries) ==
    MapPut(clusters, name,
           [State |-> IF name \in DOMAIN clusters
                      THEN clusters[name].State ELSE state,
            Summary |-> summary,
            CategorySummaries |-> categorySummaries, Checks |-> checks])

\* The ClusterState that Update builds.
newClusterState(state, checks, summary, categorySummaries) ==
    [State |-> state, Summary |-> summary,
     CategorySummaries |-> categorySummaries, Checks |-> checks]

StoreUpdate(clusters, name, state, checks, summary, categorySummaries) ==
    MapPut(clusters, name,
           newClusterState(state, checks, summary, categorySummaries))

\* Remove that empties the store.
StoreRemoveAll(clusters, name) == EmptyMap

StoreRemove(clusters, name) == MapDelete(clusters, name)

\* snapshot: a copy of the map of the store.
snapshot(clusters) == [n \in DOMAIN clusters |-> clusters[n]]

\* The store after the Reconcile of a second ClusterReadiness object,
\* "other", has published one failing warning check.
OtherName == "other"
OtherReconciled ==
    StoreUpdate(EmptyMap, OtherName, "Degraded",
                [n \in {"dns"} |->
                    [Status |-> "Failing", Message |-> "failed",
                     Severity |-> SeverityWarning, Category |-> "networking"]],
                [f \in {"Total", "Passing", "Failing", "CriticalTotal",
                        "CriticalPassing", "WarningFailing"} |->
                    IF f \in {"Total", "Failing", "WarningFailing"}
                    THEN 1 ELSE 0],
                <<[Category |-> "networking", State |-> "Degraded",
                   Total |-> 1, Passing |-> 0, Failing |-> 1]>>)

\* IsReady that takes an empty store for ready.
IsReadyWhenEmpty(clusters) == \A n \in DOMAIN clusters : clusters[n].State # "Unhealthy"

\* IsReady over the records of the store.
IsReady(clusters) ==
    IF Cardinality(DOMAIN clusters) = 0 THEN FALSE
    ELSE \A n \in DOMAIN clusters : clusters[n].State # "Unhealthy"

\* filteredChecksOf that applies the severity filter only when no category
\* filter is given.
filteredChecksOfOneFilter(checks, categoryFilter, severityFilter) ==
    LET keep == { c \in DOMAIN checks :
                    IF categoryFilter # ""
                    THEN checks[c].Category = categoryFilter
                    ELSE severityFilter = ""
                           \/ checks[c].Severity = severityFilter }
    IN  [c \in keep |-> checks[c]]

\* filterSnapshot: the checks of one ClusterState that pass both filters.
filteredChecksOf(checks, categoryFilter, severityFilter) ==
    LET keep == { c \in DOMAIN checks :
                    /\ ~(categoryFilter # "" /\ checks[c].Category # categoryFilter)
                    /\ ~(severityFilter # "" /\ checks[c].Severity # severityFilter) }
    IN  [c \in keep |-> checks[c]]

\* filterSnapshot: the loop that recomputes the state, over the filtered
\* checks in the order the map yields them, from index i on.
RECURSIVE recomputeLoop(_, _, _)
recomputeLoop(state, order, i) ==
    IF i > Len(order) THEN state
    ELSE IF ~order[i].Ready /\ order[i].Severity = "critical" THEN "Unhealthy"
    ELSE IF ~order[i].Ready /\ order[i].Severity = "warning"
         THEN recomputeLoop("Degraded", order, i + 1)
         ELSE recomputeLoop(state, order, i + 1)

\* recomputedStates that takes no checks for Healthy.
recomputedStatesEmptyHealthy(filteredChecks) ==
    { recomputeLoop("Healthy", order, 1) : order \in MapValueSeqs(filteredChecks) }

\* The states filterSnapshot can give a ClusterState with these filtered
\* checks, one for each order of the iteration over the map.
recomputedStates(filteredChecks) ==
    IF Cardinality(DOMAIN filteredChecks) = 0 THEN {"Unhealthy"}
    ELSE { recomputeLoop("Healthy", order, 1) :
             order \in MapValueSeqs(filteredChecks) }

\* The ClusterState filterSnapshot builds carries State and Checks only.
NoSummary == <<>>
NoCategorySummaries == <<>>

\* filterSnapshot: the maps it can return.
filterSnapshot(snap, categoryFilter, severityFilter) ==
    { f \in [DOMAIN snap ->
               UNION { { newClusterState(
                             st,
                             filteredChecksOf(snap[n].Checks, categoryFilter,
                                              severityFilter),
                             NoSummary, NoCategorySummaries) :
                         st \in {"Healthy", "Degraded", "Unhealthy"} } :
                       n \in DOMAIN snap }] :
        \A n \in DOMAIN snap :
           /\ f[n].Checks = filteredChecksOf(snap[n].Checks, categoryFilter,
                                             severityFilter)
           /\ f[n].State \in recomputedStates(f[n].Checks) }

StatusOK == 200
StatusServiceUnavailable == 503

\* ReadyzHandler from the (filtered) snapshot on: the status code and the
\* body.
readyzResponse(snap) ==
    LET healthy == /\ Cardinality(DOMAIN snap) > 0
                   /\ \A n \in DOMAIN snap : snap[n].State # "Unhealthy"
    IN  [Code |-> IF healthy THEN StatusOK ELSE StatusServiceUnavailable,
         State |-> IF ~healthy THEN "Unhealthy"
                   ELSE IF \E n \in DOMAIN snap : snap[n].State = "Degraded"
                        THEN "Degraded" ELSE "Healthy",
         Clusters |-> snap]

(***************************************************************************)
(* State.                                                                  *)
(***************************************************************************)
VARIABLES
    \* ResolveChecks walked one loop iteration at a time
    rpc,         \* "idle", "profiles", "inline", "done", "error"
    resolved,    \* the working map, identifier -> ResolvedCheck
    curProfile,  \* name of the profile being walked, "" if none
    result,      \* the returned slice
    \* ResolveChecks called on a given spec
    callpc,         \* "idle", "call", "returned"
    gateProfiles,   \* the GateProfiles that exist: name -> spec.checks
    crSpec,         \* the ClusterReadiness spec: Profiles and Checks
    resolvedChecks, \* the returned slice
    resolveErr,     \* whether an error was returned
    \* CheckSchedule called on a given input
    schedpc,          \* "idle", "call", "returned"
    schedResolved,    \* the resolved list
    existingStatuses, \* the prior status rows
    now,              \* the wall clock
    due, carried, nextRequeue, \* the three return values
    \* the API server and the wall clock
    clock,       \* the instant metav1.Now() returns
    crExists,    \* whether the ClusterReadiness object exists
    apiSpec,     \* its spec
    apiStatus,   \* its status
    gateChecks,  \* the GateChecks that exist: name -> spec
    \* Reconcile: its position and its locals
    pc,          \* "idle", "running", "aggregated", "stored"
    cr,          \* the fetched object: Spec and Status
    cycleNow,    \* now
    existingCategoryLookup,
    schedule,    \* dueChecks, carriedStatuses, nextRequeue
    results,     \* per due check: <<>> until its goroutine ends
    summary, categories, healthState, healthChecks,
    reconcileResult, \* what the last Reconcile returned
    \* the process-wide state
    readinessState,  \* the health server's store: name -> ClusterState
    metrics,         \* the gauges: label values -> value
    events,      \* the number of environment events so far
    \* the store of the health server with its records as objects, and one
    \* request to /readyz
    rsStates,        \* rs.states: name -> address of a ClusterState
    rsHeap,          \* address -> ClusterState, for the addresses in use
    hpc,             \* the handler: "idle", "snapshot", "responded"
    hSnap,           \* the map that snapshot() returned: name -> address
    hCategoryFilter, hSeverityFilter,  \* the query parameters
    hResp,           \* the response written: <<>> or <<response>>
    \* the registry of package checks and the goroutines that call Register
    regRegistry,     \* the map registry: name -> Checker
    registryMu,      \* the goroutine that holds registryMu, or Unlocked
    regpc,           \* per goroutine: "idle", "locked", "checked", "inserted",
                     \* "panicking"
    regArg,          \* per goroutine: the Checker of the call under way
    regExists,       \* per goroutine: the result of the lookup
    regLog,          \* per goroutine: the calls that returned, with outcome
    \* one call of executeScriptCheck and the Job it launches
    jpc,             \* "idle", "create", "poll", "logs", "cleanup", "returned"
    jCtxDone,        \* ctx of the call is cancelled
    jTimeout,        \* timeout, in poll intervals
    jElapsed,        \* poll intervals elapsed since pollJobCompletion began
    jTick,           \* a tick of the ticker is pending
    jJob,            \* the Job in the cluster: "none", "running", "complete",
                     \* "failed", "deleted"
    jPoll,           \* what pollJobCompletion returned: [ready, reason, err]
    jDeletes,        \* the delete requests issued, in order
    jReturn,         \* what executeScriptCheck returned: [Ready, err, path]
    \* the executions of the checks, as the cluster saw them
    lastExecuted,    \* identifier -> the instant of its last execution
    \* one dispatch of a dynamic check: the goroutine and the merge of its slot
    dpc,             \* "idle", "call", "ran", "merged"
    dResolved,       \* the ResolvedCheck
    dGateChecks,     \* the GateChecks that exist: name -> spec
    dSlot,           \* results[idx]
    dAcc             \* summary, categoryMap, healthChecks, CheckReady

resolveVars == <<rpc, resolved, curProfile, result>>
callVars == <<callpc, gateProfiles, crSpec, resolvedChecks, resolveErr>>
schedVars == <<schedpc, schedResolved, existingStatuses, now, due, carried,
               nextRequeue>>
recVars == <<clock, crExists, apiSpec, apiStatus, gateChecks, pc, cr, cycleNow,
             existingCategoryLookup, schedule, results, summary,
             categories, healthState, healthChecks, reconcileResult,
             readinessState, metrics, events>>
storeVars == <<rsStates, rsHeap, hpc, hSnap, hCategoryFilter, hSeverityFilter,
               hResp>>
regVars == <<regRegistry, registryMu, regpc, regArg, regExists, regLog>>
jobVars == <<jpc, jCtxDone, jTimeout, jElapsed, jTick, jJob, jPoll, jDeletes, jReturn>>
histVars == <<lastExecuted>>
dispVars == <<dpc, dResolved, dGateChecks, dSlot, dAcc>>
libVars == <<storeVars, regVars, jobVars, histVars, dispVars>>
notStoreVars == <<resolveVars, callVars, schedVars, recVars, regVars, jobVars, histVars, dispVars>>
notRegVars == <<resolveVars, callVars, schedVars, recVars, storeVars, jobVars, histVars, dispVars>>
notJobVars == <<resolveVars, callVars, schedVars, recVars, storeVars, regVars, histVars, dispVars>>
notDispVars == <<resolveVars, callVars, schedVars, recVars, storeVars, regVars, jobVars, histVars>>
vars == <<resolveVars, callVars, schedVars, recVars, libVars>>

ProfileRefOf(name) == [Name |-> name, ExcludeChecks |-> <<>>]

\* What an excludeChecks entry names a ref by: its name or its gateCheckRef.
ExcludeName(r) == IF r.Name # "" THEN r.Name ELSE r.GateCheckRef

\* A ProfileRef that lists the refs of excluded in its excludeChecks.
ProfileRefExcluding(name, excluded) ==
    [Name |-> name,
     ExcludeChecks |-> [i \in DOMAIN excluded |-> ExcludeName(excluded[i])]]

\* The GateProfiles on the API server.
ClusterProfiles ==
    [p \in {"A"} |->
        << [NoRef EXCEPT !.Name = "dns"],
           [NoRef EXCEPT !.GateCheckRef = "ingress"] >>]

\* The GateCheck "ingress": severity warning, no category.
IngressGateCheck ==
    [Severity |-> SeverityWarning, Category |-> "", CheckType |-> "podCheck"]

\* The specs the ClusterReadiness object is given.
EntitySpecs ==
    { \* profile A alone
      [Interval |-> NilTime, Profiles |-> <<ProfileRefOf("A")>>,
       Checks |-> <<>>],
      \* profile A with dns made a warning and slowed down
      [Interval |-> NilTime, Profiles |-> <<ProfileRefOf("A")>>,
       Checks |-> << [NoRef EXCEPT !.Name = "dns",
                                   !.Severity = SeverityWarning,
                                   !.Interval = MaxInterval] >>],
      \* an informational dynamic check and an unregistered built-in
      [Interval |-> MaxInterval, Profiles |-> <<>>,
       Checks |-> << [NoRef EXCEPT !.GateCheckRef = "ingress",
                                   !.Severity = SeverityInfo,
                                   !.Category = "networking"],
                     [NoRef EXCEPT !.Name = "etcd"] >>],
      \* a profile that does not exist
      [Interval |-> MaxInterval, Profiles |-> <<ProfileRefOf("missing")>>,
       Checks |-> <<>>],
      \* nothing
      [Interval |-> NilTime, Profiles |-> <<>>, Checks |-> <<>>] }

EmptySpec == [Interval |-> NilTime, Profiles |-> <<>>, Checks |-> <<>>]

\* The status of a ClusterReadiness that was never reconciled.  Summary is
\* <<>> for a nil pointer, else <<summary>>.
EmptyStatus ==
    [State |-> "", LastChecked |-> NilTime, Categories |-> <<>>,
     Summary |-> <<>>, Conditions |-> EmptyMap]

NoSchedule == [dueChecks |-> <<>>, carriedStatuses |-> <<>>, nextRequeue |-> 0]

NoMetrics ==
    [CheckReady |-> EmptyMap, CategoryReady |-> EmptyMap,
     ClusterReady |-> EmptyMap, ClusterHealthState |-> EmptyMap]

NoResult == [RequeueAfter |-> 0, err |-> FALSE]

\* The locals of Reconcile outside a call.
LocalsIdle ==
    /\ cr = [Spec |-> EmptySpec, Status |-> EmptyStatus]
    /\ cycleNow = NilTime
    /\ existingCategoryLookup = EmptyMap
    /\ schedule = NoSchedule
    /\ results = <<>>
    /\ summary = ZeroSummary
    /\ categories = <<>>
    /\ healthState = ""
    /\ healthChecks = EmptyMap

ReconcileIdle ==
    /\ pc = "idle"
    /\ clock = 0
    /\ crExists = FALSE
    /\ apiSpec = EmptySpec
    /\ apiStatus = EmptyStatus
    /\ gateChecks = EmptyMap
    /\ LocalsIdle
    /\ readinessState = EmptyMap
    /\ metrics = NoMetrics
    /\ reconcileResult = NoResult
    /\ events = 0

StoreIdle ==
    /\ rsStates = EmptyMap
    /\ rsHeap = EmptyMap
    /\ hpc = "idle"
    /\ hSnap = EmptyMap
    /\ hCategoryFilter = ""
    /\ hSeverityFilter = ""
    /\ hResp = <<>>

\* The goroutines that register checkers.
Goroutines == {1, 2}

\* The zero value of registryMu: no goroutine holds it.
Unlocked == 0

\* The zero Checker, held by a goroutine that is not in a call.
NoChecker == [Name |-> "", Id |-> 0]

RegistryIdle ==
    /\ regRegistry = EmptyMap
    /\ registryMu = Unlocked
    /\ regpc = [g \in Goroutines |-> "idle"]
    /\ regArg = [g \in Goroutines |-> NoChecker]
    /\ regExists = [g \in Goroutines |-> FALSE]
    /\ regLog = [g \in Goroutines |-> <<>>]

\* The zero jobResult and the zero return value.
NoJobResult == [ready |-> FALSE, reason |-> "", err |-> FALSE]

NoReturn == [Ready |-> FALSE, err |-> FALSE, path |-> ""]

JobIdle ==
    /\ jpc = "idle"
    /\ jCtxDone = FALSE
    /\ jTimeout = 0
    /\ jElapsed = 0
    /\ jTick = FALSE
    /\ jJob = "none"
    /\ jPoll = NoJobResult
    /\ jDeletes = <<>>
    /\ jReturn = NoReturn

\* No check was executed yet.
HistIdle == lastExecuted = EmptyMap

\* The accumulators of the merge before the first result.
ZeroAcc ==
    [summary |-> ZeroSummary, categoryMap |-> EmptyMap,
     healthChecks |-> EmptyMap, CheckReady |-> EmptyMap]

DispatchIdle ==
    /\ dpc = "idle"
    /\ dResolved = resolveInlineCheck([NoRef EXCEPT !.GateCheckRef = "ingress"],
                                      defaultInterval)
    /\ dGateChecks = EmptyMap
    /\ dSlot = zeroCheckResult
    /\ dAcc = ZeroAcc

LibIdle == StoreIdle /\ RegistryIdle /\ JobIdle /\ HistIdle /\ DispatchIdle

ResolveIdle ==
    /\ rpc = "idle"
    /\ resolved = EmptyMap
    /\ curProfile = ""
    /\ result = <<>>

CallIdle ==
    /\ callpc = "idle"
    /\ gateProfiles = EmptyMap
    /\ crSpec = [Profiles |-> <<>>, Checks |-> <<>>]
    /\ resolvedChecks = <<>>
    /\ resolveErr = FALSE

SchedIdle ==
    /\ schedpc = "idle"
    /\ schedResolved = <<>>
    /\ existingStatuses = <<>>
    /\ now = 0
    /\ due = <<>>
    /\ carried = <<>>
    /\ nextRequeue = 0

(***************************************************************************)
(* ResolveChecks on specs of any length: one action per loop iteration,    *)
(* the profiles and refs drawn as the loops reach them.                    *)
(***************************************************************************)
ResolveInit ==
    /\ LibIdle
    /\ rpc = "profiles"
    /\ resolved = EmptyMap
    /\ curProfile = ""
    /\ result = <<>>
    /\ CallIdle
    /\ SchedIdle
    /\ ReconcileIdle

\* c.Get of the next profile ref succeeds.
GetProfile(p) ==
    /\ rpc = "profiles"
    /\ curProfile' = p
    /\ UNCHANGED <<rpc, resolved, result, callVars, schedVars,
                   recVars, libVars>>

\* c.Get of the next profile ref fails: return nil, err.
GetProfileFails ==
    /\ rpc = "profiles"
    /\ rpc' = "error"
    /\ result' = <<>>
    /\ curProfile' = ""
    /\ UNCHANGED <<resolved, callVars, schedVars,
                   recVars, libVars>>

ProfileCheck(checkRef) ==
    /\ rpc = "profiles"
    /\ curProfile # ""
    /\ resolved' = profileCheckStep(resolved, checkRef, curProfile,
                                    defaultInterval)
    /\ UNCHANGED <<rpc, curProfile, result, callVars, schedVars,
                   recVars, libVars>>

\* The loop over spec.Profiles ends.
ProfilesDone ==
    /\ rpc = "profiles"
    /\ rpc' = "inline"
    /\ curProfile' = ""
    /\ UNCHANGED <<resolved, result, callVars, schedVars,
                   recVars, libVars>>

InlineCheck(cs) ==
    /\ rpc = "inline"
    /\ resolved' = inlineCheckStep(resolved, cs, defaultInterval)
    /\ UNCHANGED <<rpc, curProfile, result, callVars, schedVars,
                   recVars, libVars>>

\* Convert to slice and return.
ResolveReturn ==
    /\ rpc = "inline"
    /\ rpc' = "done"
    /\ result' \in MapValueSeqs(resolved)
    /\ UNCHANGED <<resolved, curProfile, callVars, schedVars,
                   recVars, libVars>>

ResolveNext ==
    \/ \E p \in ProfileNames : GetProfile(p)
    \/ GetProfileFails
    \/ \E r \in CheckRefs : ProfileCheck(r)
    \/ ProfilesDone
    \/ \E cs \in CheckRefs : InlineCheck(cs)
    \/ ResolveReturn

SpecResolve == ResolveInit /\ [][ResolveNext]_vars

(***************************************************************************)
(* ResolveChecks on the specs that declare two refs: both in one profile,  *)
(* one in each of two profiles, one in a profile and one inline, or both   *)
(* inline; and on the specs whose ProfileRef excludes the one ref of its   *)
(* profile and that declare the other ref inline.                          *)
(***************************************************************************)
Shapes ==
    {"oneProfile", "twoProfiles", "profileInline", "inline", "profileExcluding"}

StoreOf(shape, r1, r2) ==
    CASE shape = "oneProfile" -> [p \in {"A"} |-> <<r1, r2>>]
      [] shape = "twoProfiles" ->
            [p \in {"A", "B"} |-> IF p = "A" THEN <<r1>> ELSE <<r2>>]
      [] shape = "profileInline" -> [p \in {"A"} |-> <<r1>>]
      [] shape = "profileExcluding" -> [p \in {"A"} |-> <<r1>>]
      [] OTHER -> EmptyMap

SpecOf(shape, r1, r2) ==
    CASE shape = "oneProfile" ->
            [Profiles |-> <<ProfileRefOf("A")>>, Checks |-> <<>>]
      [] shape = "twoProfiles" ->
            [Profiles |-> <<ProfileRefOf("A"), ProfileRefOf("B")>>,
             Checks |-> <<>>]
      [] shape = "profileInline" ->
            [Profiles |-> <<ProfileRefOf("A")>>, Checks |-> <<r2>>]
      [] shape = "profileExcluding" ->
            [Profiles |-> <<ProfileRefExcluding("A", <<r1>>)>>,
             Checks |-> <<r2>>]
      [] OTHER -> [Profiles |-> <<>>, Checks |-> <<r1, r2>>]

CallInit ==
    /\ LibIdle
    /\ ResolveIdle
    /\ SchedIdle
    /\ ReconcileIdle
    /\ callpc = "call"
    /\ \E shape \in Shapes, r1 \in CheckRefs, r2 \in CheckRefs :
          /\ gateProfiles = StoreOf(shape, r1, r2)
          /\ crSpec = SpecOf(shape, r1, r2)
    /\ resolvedChecks = <<>>
    /\ resolveErr = FALSE

CallResolveChecks ==
    /\ callpc = "call"
    /\ callpc' = "returned"
    /\ \E r \in ResolveChecks(crSpec, gateProfiles, defaultInterval) :
          /\ resolvedChecks' = r.checks
          /\ resolveErr' = r.err
    /\ UNCHANGED <<gateProfiles, crSpec, resolveVars, schedVars, recVars, libVars>>

CallNext == CallResolveChecks

SpecOverride == CallInit /\ [][CallNext]_vars

(***************************************************************************)
(* CheckSchedule on resolved lists with pairwise distinct identifiers and  *)
(* prior rows with pairwise distinct names, as ResolveChecks and a         *)
(* previous cycle produce them.  A row may name a check that is no longer  *)
(* resolved; its lastChecked, the now of an earlier cycle, is not later    *)
(* than now.  CheckSchedule reads only the name and the lastChecked of a   *)
(* row, so the rows differ in these two.                                   *)
(***************************************************************************)
CheckNamings ==
    { [Name |-> "dns", GateCheckRef |-> ""],
      [Name |-> "", GateCheckRef |-> "ingress"],
      [Name |-> "etcd", GateCheckRef |-> ""] }

\* The resolved checks of the three identifiers, with every interval.
ScheduledChecks ==
    { resolveInlineCheck([NoRef EXCEPT !.Name = n.Name,
                                       !.GateCheckRef = n.GateCheckRef,
                                       !.Interval = iv], defaultInterval) :
        n \in CheckNamings, iv \in 1..MaxInterval }

PriorRows ==
    { [Name |-> id, Source |-> "inline", Status |-> "Passing",
       Severity |-> SeverityCritical, Message |-> "", LastChecked |-> lc] :
        id \in {Identifier(n) : n \in CheckNamings},
        lc \in {NilTime} \cup (0..MaxTime) }

ScheduleInit ==
    /\ LibIdle
    /\ ResolveIdle
    /\ CallIdle
    /\ ReconcileIdle
    /\ schedpc = "call"
    /\ \E n \in 0..MaxChecks : \E s \in [1..n -> ScheduledChecks] :
          /\ \A i, j \in 1..n : i # j => s[i].Identifier # s[j].Identifier
          /\ schedResolved = s
    /\ now \in 0..MaxTime
    /\ \E n \in 0..MaxRows : \E s \in [1..n -> PriorRows] :
          /\ \A i, j \in 1..n : i # j => s[i].Name # s[j].Name
          /\ \A i \in 1..n : s[i].LastChecked <= now
          /\ existingStatuses = s
    /\ due = <<>>
    /\ carried = <<>>
    /\ nextRequeue = 0

CallCheckSchedule ==
    /\ schedpc = "call"
    /\ schedpc' = "returned"
    /\ LET r == CheckSchedule(schedResolved, existingStatuses, now)
       IN  /\ due' = r.due
           /\ carried' = r.carried
           /\ nextRequeue' = r.nextRequeue
    /\ UNCHANGED <<schedResolved, existingStatuses, now, resolveVars, callVars,
                   recVars, libVars>>

ScheduleNext == CallCheckSchedule

SpecSchedule == ScheduleInit /\ [][ScheduleNext]_vars

(***************************************************************************)
(* Reconcile of the one ClusterReadiness object, against an API server     *)
(* that holds the object, the GateProfiles and the GateChecks, with the    *)
(* wall clock advancing and the object being created, edited and deleted.  *)
(* controller-runtime runs at most one Reconcile of a key at a time.       *)
(* Reconcile reads the object and the clock once, at its start, and its    *)
(* status update fails when the object changed meanwhile; so a change of   *)
(* the object or of the clock during a Reconcile is taken after it, and    *)
(* the failed status update stands for the conflict.                       *)
(***************************************************************************)
Init ==
    /\ LibIdle
    /\ ResolveIdle
    /\ CallIdle
    /\ SchedIdle
    /\ pc = "idle"
    /\ clock = 0
    /\ crExists = FALSE
    /\ apiSpec = EmptySpec
    /\ apiStatus = EmptyStatus
    /\ gateChecks \in {EmptyMap, [n \in {"ingress"} |-> IngressGateCheck]}
    /\ LocalsIdle
    /\ readinessState = OtherReconciled
    /\ metrics = NoMetrics
    /\ reconcileResult = NoResult
    /\ events = 0

\* Return that never hands an error to the runtime.
ReturnNil(requeueAfter, err) ==
    /\ pc' = "idle"
    /\ reconcileResult' = [RequeueAfter |-> requeueAfter, err |-> FALSE]
    /\ cr' = [Spec |-> EmptySpec, Status |-> EmptyStatus]
    /\ cycleNow' = NilTime
    /\ existingCategoryLookup' = EmptyMap
    /\ schedule' = NoSchedule
    /\ results' = <<>>
    /\ summary' = ZeroSummary
    /\ categories' = <<>>
    /\ healthState' = ""
    /\ healthChecks' = EmptyMap

\* Reconcile returns: its locals die.
Return(requeueAfter, err) ==
    /\ pc' = "idle"
    /\ reconcileResult' = [RequeueAfter |-> requeueAfter, err |-> err]
    /\ cr' = [Spec |-> EmptySpec, Status |-> EmptyStatus]
    /\ cycleNow' = NilTime
    /\ existingCategoryLookup' = EmptyMap
    /\ schedule' = NoSchedule
    /\ results' = <<>>
    /\ summary' = ZeroSummary
    /\ categories' = <<>>
    /\ healthState' = ""
    /\ healthChecks' = EmptyMap

intervalOf(spec) ==
    IF spec.Interval # NilTime /\ spec.Interval > 0
    THEN spec.Interval ELSE defaultInterval

\* r.Get fails: the object is gone (NotFound, swallowed) or the API server
\* failed the read (returned).  Either way the store entry is removed.
ReconcileGetFails ==
    /\ ~crExists \/ events < MaxEvents
    /\ pc = "idle"
    /\ readinessState' = StoreRemove(readinessState, ClusterName)
    /\ Return(0, crExists)
    /\ events' = IF crExists THEN events + 1 ELSE events
    /\ UNCHANGED <<clock, crExists, apiSpec, apiStatus, gateChecks, metrics,
                   resolveVars, callVars, schedVars, libVars>>

\* ResolveChecks fails: ProfilesResolved=False is written (the status
\* update may fail, which is only logged) and the default interval returned.
ReconcileResolveFails ==
    /\ pc = "idle"
    /\ crExists
    /\ \E r \in ResolveChecks(apiSpec, ClusterProfiles, intervalOf(apiSpec)) :
          r.err
    /\ \E updated \in BOOLEAN :
          /\ ~updated => events < MaxEvents
          /\ events' = IF updated THEN events ELSE events + 1
          /\ apiStatus' =
                IF updated
                THEN [apiStatus EXCEPT !.Conditions =
                         SetStatusCondition(@, "ProfilesResolved", "False",
                                            "ResolutionFailed")]
                ELSE apiStatus
    /\ Return(intervalOf(apiSpec), FALSE)
    /\ UNCHANGED <<clock, crExists, apiSpec, gateChecks, readinessState,
                   metrics, resolveVars, callVars, schedVars, libVars>>

\* Reconcile up to the start of the goroutines: fetch, resolve, set the
\* condition, read the clock, flatten the existing rows, schedule.
ReconcileStart ==
    /\ pc = "idle"
    /\ crExists
    /\ \E r \in ResolveChecks(apiSpec, ClusterProfiles, intervalOf(apiSpec)) :
          /\ ~r.err
          /\ LET existingChecks == flattenChecks(apiStatus.Categories, 1)
                 sched == CheckSchedule(r.checks, existingChecks, clock)
             IN  /\ cr' = [Spec |-> apiSpec,
                           Status |->
                             IF Len(apiSpec.Profiles) > 0
                             THEN [apiStatus EXCEPT !.Conditions =
                                      SetStatusCondition(@, "ProfilesResolved",
                                          "True", "AllProfilesResolved")]
                             ELSE apiStatus]
                 /\ cycleNow' = clock
                 /\ existingCategoryLookup' =
                        categoryLookupOf(EmptyMap, apiStatus.Categories, 1)
                 /\ schedule' = [dueChecks |-> sched.due,
                                 carriedStatuses |-> sched.carried,
                                 nextRequeue |-> sched.nextRequeue]
                 /\ results' = [i \in 1..Len(sched.due) |-> <<>>]
    /\ pc' = "running"
    /\ UNCHANGED <<events, clock, crExists, apiSpec, apiStatus, gateChecks,
                   summary, categories, healthState, healthChecks,
                   readinessState, metrics, reconcileResult, resolveVars,
                   callVars, schedVars, libVars>>

\* The goroutine of the i-th due check runs to its end.
RunCheck(i) ==
    /\ pc = "running"
    /\ i \in DOMAIN results
    /\ results[i] = <<>>
    /\ \E o \in Outcomes :
          results' = [results EXCEPT
                        ![i] = <<runCheck(schedule.dueChecks[i], gateChecks, o)>>]
    /\ lastExecuted' = MapPut(lastExecuted, schedule.dueChecks[i].Identifier,
                              cycleNow)
    /\ UNCHANGED <<events, pc, clock, crExists, apiSpec, apiStatus,
                   gateChecks, cr, cycleNow, existingCategoryLookup, schedule,
                   summary, categories, healthState, healthChecks,
                   readinessState, metrics, reconcileResult, resolveVars,
                   callVars, schedVars, storeVars, regVars, jobVars, dispVars>>

\* After wg.Wait: the two merge loops, the categories, the health state and
\* the gauges.
Aggregate ==
    /\ pc = "running"
    /\ wgWait(results)
    /\ LET fresh == resultsLoop(
                        [summary |-> ZeroSummary, categoryMap |-> EmptyMap,
                         healthChecks |-> EmptyMap,
                         CheckReady |-> metrics.CheckReady],
                        [i \in DOMAIN results |-> slotOf(results, i)], 1,
                        cycleNow)
           acc == carriedLoop(fresh, schedule.carriedStatuses, 1,
                              existingCategoryLookup)
           state == healthStateOf(acc.summary)
       IN  /\ summary' = acc.summary
           /\ categories' = buildCategories(acc.categoryMap)
           /\ healthState' = state
           /\ healthChecks' = acc.healthChecks
           /\ metrics' =
                [CheckReady |-> acc.CheckReady,
                 CategoryReady |->
                     setCategoryReady(metrics.CategoryReady, acc.categoryMap),
                 ClusterReady |->
                     MapPut(metrics.ClusterReady, ClusterName,
                            IF acc.summary.CriticalTotal
                                 = acc.summary.CriticalPassing
                            THEN 1 ELSE 0),
                 ClusterHealthState |->
                     [k \in {<<ClusterName, s>> : s \in HealthStates} |->
                         IF k[2] = state THEN 1 ELSE 0]]
    /\ pc' = "aggregated"
    /\ UNCHANGED <<events, clock, crExists, apiSpec, apiStatus, gateChecks,
                   cr, cycleNow, existingCategoryLookup, schedule, results,
                   readinessState, reconcileResult, resolveVars, callVars,
                   schedVars, libVars>>

\* r.ReadinessState.Update and the assignment of the status fields.
UpdateStore ==
    /\ pc = "aggregated"
    /\ readinessState' =
          StoreUpdate(readinessState, ClusterName, healthState, healthChecks,
                      [f \in {"Total", "Passing", "Failing", "CriticalTotal",
                              "CriticalPassing", "WarningFailing"} |->
                          summary[f]],
                      [i \in DOMAIN categories |->
                          [Category |-> categories[i].Category,
                           State |-> categories[i].State,
                           Total |-> categories[i].Total,
                           Passing |-> categories[i].Passing,
                           Failing |-> categories[i].Failing]])
    /\ cr' = [cr EXCEPT !.Status.State = healthState,
                        !.Status.LastChecked = cycleNow,
                        !.Status.Categories = categories,
                        !.Status.Summary = <<summary>>]
    /\ pc' = "stored"
    /\ UNCHANGED <<events, clock, crExists, apiSpec, apiStatus, gateChecks,
                   cycleNow, existingCategoryLookup, schedule, results,
                   summary, categories, healthState, healthChecks, metrics,
                   reconcileResult, resolveVars, callVars, schedVars,
                   libVars>>

\* r.Status().Update succeeds: the object is as it was fetched.
UpdateStatus ==
    /\ pc = "stored"
    /\ crExists
    /\ apiStatus' = cr.Status
    /\ Return(schedule.nextRequeue, FALSE)
    /\ UNCHANGED <<events, clock, crExists, apiSpec, gateChecks,
                   readinessState, metrics, resolveVars, callVars, schedVars,
                   libVars>>

\* r.Status().Update fails (object gone, API server error): the
\* error is returned.
UpdateStatusFails ==
    /\ events < MaxEvents
    /\ pc = "stored"
    /\ Return(0, TRUE)
    /\ events' = events + 1
    /\ UNCHANGED <<clock, crExists, apiSpec, apiStatus, gateChecks,
                   readinessState, metrics, resolveVars, callVars, schedVars,
                   libVars>>

\* The wall clock advances.
Tick ==
    /\ pc = "idle"
    /\ events < MaxEvents
    /\ events' = events + 1
    /\ clock' = clock + 1
    /\ UNCHANGED <<pc, crExists, apiSpec, apiStatus, gateChecks, cr, cycleNow,
                   existingCategoryLookup, schedule, results, summary,
                   categories, healthState, healthChecks, readinessState,
                   metrics, reconcileResult, resolveVars, callVars, schedVars,
                   libVars>>

\* A user replaces the spec of the object.
EditSpec(s) ==
    /\ events < MaxEvents
    /\ pc = "idle"
    /\ crExists
    /\ s # apiSpec
    /\ apiSpec' = s
    /\ events' = events + 1
    /\ UNCHANGED <<pc, clock, crExists, apiStatus, gateChecks, cr, cycleNow,
                   existingCategoryLookup, schedule, results, summary,
                   categories, healthState, healthChecks, readinessState,
                   metrics, reconcileResult, resolveVars, callVars, schedVars,
                   libVars>>

\* A user deletes the object.
DeleteCR ==
    /\ events < MaxEvents
    /\ pc = "idle"
    /\ crExists
    /\ crExists' = FALSE
    /\ apiSpec' = EmptySpec
    /\ apiStatus' = EmptyStatus
    /\ events' = events + 1
    /\ UNCHANGED <<pc, clock, gateChecks, cr, cycleNow,
                   existingCategoryLookup, schedule, results, summary,
                   categories, healthState, healthChecks, readinessState,
                   metrics, reconcileResult, resolveVars, callVars, schedVars,
                   libVars>>

\* A user creates the object.
CreateCR(s) ==
    /\ pc = "idle"
    /\ ~crExists
    /\ crExists' = TRUE
    /\ apiSpec' = s
    /\ apiStatus' = EmptyStatus
    /\ UNCHANGED <<events, pc, clock, gateChecks, cr, cycleNow,
                   existingCategoryLookup, schedule, results, summary,
                   categories, healthState, healthChecks, readinessState,
                   metrics, reconcileResult, resolveVars, callVars, schedVars,
                   libVars>>

Next ==
    \/ ReconcileGetFails
    \/ ReconcileResolveFails
    \/ ReconcileStart
    \/ \E i \in DOMAIN results : RunCheck(i)
    \/ Aggregate
    \/ UpdateStore
    \/ UpdateStatus
    \/ UpdateStatusFails
    \/ Tick
    \/ \E s \in EntitySpecs : EditSpec(s)
    \/ DeleteCR
    \/ \E s \in EntitySpecs : CreateCR(s)

Spec == Init /\ [][Next]_vars

(***************************************************************************)
(* part_015: the store shared by the driver (Update, Remove) and the HTTP  *)
(* handler of /readyz.  Update, Remove, IsReady and snapshot each run      *)
(* under the mutex of the store, so each is one step; the handler reads    *)
(* the records of its snapshot after snapshot has released the lock.       *)
(* Records are objects: the store and a snapshot hold their addresses.     *)
(***************************************************************************)
\* The names of the ClusterReadiness objects.
StoreNames == {ClusterName, OtherName}

\* The CheckState maps the driver hands to Update.
CheckMaps ==
    LET dns(ready) == [Ready |-> ready, Message |-> "", Severity |-> "critical",
                       Category |-> "networking"]
        vault(ready, sev) == [Ready |-> ready, Message |-> "", Severity |-> sev,
                              Category |-> "security"]
    IN  {EmptyMap}
          \cup { [c \in {"dns"} |-> dns(r)] : r \in BOOLEAN }
          \cup { [c \in {"dns", "vault"} |->
                     IF c = "dns" THEN dns(r) ELSE vault(v[1], v[2])] :
                   r \in BOOLEAN,
                   v \in {<<FALSE, "warning">>, <<TRUE, "warning">>,
                          <<FALSE, "info">>} }

\* The state the driver computes for the checks of a cycle.
stateOfChecks(checks) ==
    IF \E c \in DOMAIN checks :
          ~checks[c].Ready /\ checks[c].Severity = "critical"
    THEN "Unhealthy"
    ELSE IF \E c \in DOMAIN checks :
               ~checks[c].Ready /\ checks[c].Severity = "warning"
         THEN "Degraded" ELSE "Healthy"

\* The summary view and the category views the driver builds for them.
summaryViewOf(checks) ==
    [Total |-> Cardinality(DOMAIN checks),
     Passing |-> Cardinality({c \in DOMAIN checks : checks[c].Ready}),
     Failing |-> Cardinality({c \in DOMAIN checks : ~checks[c].Ready})]

categoryViewsOf(checks) ==
    LET view(cat) ==
            LET in == {c \in DOMAIN checks : checks[c].Category = cat}
            IN  [Category |-> cat,
                 Total |-> Cardinality(in),
                 Failing |-> Cardinality({c \in in : ~checks[c].Ready})]
    IN  IF DOMAIN checks = {} THEN <<>>
        ELSE IF DOMAIN checks = {"dns"} THEN <<view("networking")>>
        ELSE <<view("networking"), view("security")>>

\* The arguments of one call of Update by the driver.
UpdateArgs ==
    { [state |-> stateOfChecks(checks), checks |-> checks,
       summary |-> summaryViewOf(checks),
       categorySummaries |-> categoryViewsOf(checks)] : checks \in CheckMaps }

\* The addresses of ClusterState objects: two for each name, since at
\* most the record in the store and the one in the snapshot of the handler
\* are referred to; and the addresses that are referred to.
Addresses == StoreNames \X {0, 1}
InUse(stateMap, snapMap) ==
    {stateMap[n] : n \in DOMAIN stateMap} \cup {snapMap[n] : n \in DOMAIN snapMap}

\* Update that writes into the ClusterState the store already holds.
addressForUpdateInPlace(stateMap, snapMap, name) ==
    IF name \in DOMAIN stateMap THEN stateMap[name]
    ELSE IF name \in DOMAIN snapMap /\ snapMap[name] = <<name, 0>>
         THEN <<name, 1>> ELSE <<name, 0>>

\* Update: &ClusterState{...} is the address of a new object, one that
\* the snapshot of the handler does not refer to.
addressForUpdate(stateMap, snapMap, name) ==
    IF name \in DOMAIN snapMap /\ snapMap[name] = <<name, 0>>
    THEN <<name, 1>> ELSE <<name, 0>>

\* The objects that are still referred to.
Collect(heap, stateMap, snapMap) ==
    [a \in DOMAIN heap \cap InUse(stateMap, snapMap) |-> heap[a]]

\* The records behind a map of addresses.
Deref(addresses, heap) == [n \in DOMAIN addresses |-> heap[addresses[n]]]

StoreInit ==
    /\ ResolveIdle
    /\ CallIdle
    /\ SchedIdle
    /\ ReconcileIdle
    /\ RegistryIdle
    /\ JobIdle
    /\ StoreIdle
    /\ HistIdle
    /\ DispatchIdle

\* The driver: ReadinessState.Update(name, ...).
Update(name, args) ==
    LET a == addressForUpdate(rsStates, hSnap, name)
        newStates == MapPut(rsStates, name, a)
    IN  /\ rsStates' = newStates
        /\ rsHeap' = Collect(MapPut(rsHeap, a,
                                    newClusterState(args.state, args.checks,
                                                    args.summary,
                                                    args.categorySummaries)),
                             newStates, hSnap)
        /\ UNCHANGED <<hpc, hSnap, hCategoryFilter, hSeverityFilter, hResp,
                       notStoreVars>>

\* The driver: ReadinessState.Remove(name).
Remove(name) ==
    /\ rsStates' = StoreRemove(rsStates, name)
    /\ rsHeap' = Collect(rsHeap, StoreRemove(rsStates, name), hSnap)
    /\ UNCHANGED <<hpc, hSnap, hCategoryFilter, hSeverityFilter, hResp,
                   notStoreVars>>

\* The query parameters of a request.
CategoryFilters == {"", "networking", "security"}
SeverityFilters == {"", "critical", "warning", "info"}

\* ReadyzHandler: a request arrives, snapshot() copies the map.
HandlerSnapshot(categoryFilter, severityFilter) ==
    /\ hpc = "idle"
    /\ hpc' = "snapshot"
    /\ hSnap' = snapshot(rsStates)
    /\ hCategoryFilter' = categoryFilter
    /\ hSeverityFilter' = severityFilter
    /\ hResp' = <<>>
    /\ UNCHANGED <<rsStates, rsHeap, notStoreVars>>

\* ReadyzHandler: the filters are applied and the response is written.
HandlerRespond ==
    /\ hpc = "snapshot"
    /\ hpc' = "responded"
    /\ LET snap == Deref(hSnap, rsHeap)
       IN  IF hCategoryFilter # "" \/ hSeverityFilter # ""
           THEN \E filtered \in filterSnapshot(snap, hCategoryFilter,
                                               hSeverityFilter) :
                   hResp' = <<readyzResponse(filtered)>>
           ELSE hResp' = <<readyzResponse(snap)>>
    /\ UNCHANGED <<rsStates, rsHeap, hSnap, hCategoryFilter, hSeverityFilter,
                   notStoreVars>>

\* ReadyzHandler returns: its locals die.
HandlerReturn ==
    /\ hpc = "responded"
    /\ hpc' = "idle"
    /\ hSnap' = EmptyMap
    /\ hCategoryFilter' = ""
    /\ hSeverityFilter' = ""
    /\ hResp' = <<>>
    /\ rsHeap' = Collect(rsHeap, rsStates, EmptyMap)
    /\ UNCHANGED <<rsStates, notStoreVars>>

\* The second object has no checks, or the check "dns" only.
OtherUpdateArgs == { args \in UpdateArgs : DOMAIN args.checks \subseteq {"dns"} }

StoreNext ==
    \/ \E args \in UpdateArgs : Update(ClusterName, args)
    \/ \E args \in OtherUpdateArgs : Update(OtherName, args)
    \/ \E name \in StoreNames : Remove(name)
    \/ \E c \in CategoryFilters, v \in SeverityFilters : HandlerSnapshot(c, v)
    \/ HandlerRespond
    \/ HandlerReturn

SpecStore == StoreInit /\ [][StoreNext]_vars

(***************************************************************************)
(* internal/checks/registry.go: the global registry of built-in checkers.  *)
(* Each goroutine calls Register a bounded number of times; a call is the  *)
(* sequence Lock, lookup, then either the insertion or the panic, and the  *)
(* deferred Unlock.  A panic is recovered by the caller, as in             *)
(* TestRegisterDuplicatePanics.                                            *)
(***************************************************************************)
\* How many calls of Register one goroutine makes.
MaxRegistrations == 2

\* The names the checkers report.
CheckerNames == {"dns", "etcd"}

\* The Checker values: every call registers an object of its own, so that
\* two checkers of one name are told apart.
Checkers == [Name : CheckerNames, Id : 1..(Cardinality(Goroutines) * MaxRegistrations)]

\* The object goroutine g passes to its next call.
nextCheckerId(g, log) == (g - 1) * MaxRegistrations + Len(log[g]) + 1

\* registryMu.Lock() returns only when no goroutine holds the mutex.
lockAlwaysGranted(mu) == TRUE

lockGranted(mu) == mu = Unlocked

\* _, exists := registry[name]
existsIn(reg, name) == name \in DOMAIN reg

\* Get(name): the checker and whether it is registered.
Get(reg, name) ==
    IF name \in DOMAIN reg THEN <<reg[name], TRUE>> ELSE <<NoChecker, FALSE>>

\* List(): the registered names.
List(reg) == DOMAIN reg

RegistryInit ==
    /\ ResolveIdle
    /\ CallIdle
    /\ SchedIdle
    /\ ReconcileIdle
    /\ StoreIdle
    /\ JobIdle
    /\ RegistryIdle
    /\ HistIdle
    /\ DispatchIdle

\* Register(c): registryMu.Lock().
RegisterLock(g, c) ==
    /\ regpc[g] = "idle"
    /\ Len(regLog[g]) < MaxRegistrations
    /\ c.Id = nextCheckerId(g, regLog)
    /\ lockGranted(registryMu)
    /\ registryMu' = g
    /\ regpc' = [regpc EXCEPT ![g] = "locked"]
    /\ regArg' = [regArg EXCEPT ![g] = c]
    /\ UNCHANGED <<regRegistry, regExists, regLog, notRegVars>>

\* name := c.Name(); _, exists := registry[name]
RegisterLookup(g) ==
    /\ regpc[g] = "locked"
    /\ regExists' = [regExists EXCEPT ![g] = existsIn(regRegistry, regArg[g].Name)]
    /\ regpc' = [regpc EXCEPT ![g] = "checked"]
    /\ UNCHANGED <<regRegistry, registryMu, regArg, regLog, notRegVars>>

\* if exists { panic(...) }
RegisterPanic(g) ==
    /\ regpc[g] = "checked"
    /\ regExists[g]
    /\ regpc' = [regpc EXCEPT ![g] = "panicking"]
    /\ UNCHANGED <<regRegistry, registryMu, regArg, regExists, regLog, notRegVars>>

\* registry[name] = c
RegisterInsert(g) ==
    /\ regpc[g] = "checked"
    /\ ~regExists[g]
    /\ regRegistry' = MapPut(regRegistry, regArg[g].Name, regArg[g])
    /\ regpc' = [regpc EXCEPT ![g] = "inserted"]
    /\ UNCHANGED <<registryMu, regArg, regExists, regLog, notRegVars>>

\* defer registryMu.Unlock(): runs on the return and on the panic alike.
RegisterUnlock(g) ==
    /\ regpc[g] \in {"inserted", "panicking"}
    /\ registryMu' = IF registryMu = g THEN Unlocked ELSE registryMu
    /\ regLog' = [regLog EXCEPT ![g] =
                     Append(@, [Checker |-> regArg[g],
                                Panicked |-> regpc[g] = "panicking"])]
    /\ regpc' = [regpc EXCEPT ![g] = "idle"]
    /\ regArg' = [regArg EXCEPT ![g] = NoChecker]
    /\ regExists' = [regExists EXCEPT ![g] = FALSE]
    /\ UNCHANGED <<regRegistry, notRegVars>>

RegistryNext ==
    \/ \E g \in Goroutines, c \in Checkers : RegisterLock(g, c)
    \/ \E g \in Goroutines : RegisterLookup(g)
    \/ \E g \in Goroutines : RegisterPanic(g)
    \/ \E g \in Goroutines : RegisterInsert(g)
    \/ \E g \in Goroutines : RegisterUnlock(g)

SpecRegistry == RegistryInit /\ [][RegistryNext]_vars

(***************************************************************************)
(* internal/checks/interface.go: executeScriptCheck and pollJobCompletion. *)
(* One call, with the cluster (the Job finishing), the clock (the ticker   *)
(* and the deadline) and the caller (cancelling ctx) as the environment.   *)
(* Time is counted in poll intervals (scriptPollInterval).                 *)
(***************************************************************************)
\* The largest spec.TimeoutSeconds, in poll intervals.
MaxScriptTimeout == 3

\* defaultScriptTimeout, 30 seconds, in poll intervals of 2 seconds.
defaultScriptTimeout == 15

\* spec.TimeoutSeconds == nil
NoTimeout == 0

TimeoutSeconds == {NoTimeout} \cup (1..MaxScriptTimeout)

\* timeout := defaultScriptTimeout, or *spec.TimeoutSeconds when set.
scriptTimeoutOf(t) == IF t # NoTimeout THEN t ELSE defaultScriptTimeout

\* created.Name: the name the server generated for the Job.
JobName == "clustergate-script-1"

\* context.Background() is never cancelled.
Background == FALSE

\* A client request carrying a cancelled context fails without being sent.
requestIssued(ctxDone) == ~ctxDone

\* The context the deferred delete passes.
deleteContextOfCall(ctxDone) == ctxDone

deleteContext(ctxDone) == Background

\* The statement after pollJobCompletion: an error returns at once (through
\* the deferred delete); otherwise the logs are read.
afterPoll(res) == IF res.err THEN "cleanup" ELSE "logs"

pollErrorReturn(path) == [Ready |-> FALSE, err |-> TRUE, path |-> path]

JobInit ==
    /\ ResolveIdle
    /\ CallIdle
    /\ SchedIdle
    /\ ReconcileIdle
    /\ StoreIdle
    /\ RegistryIdle
    /\ JobIdle
    /\ HistIdle
    /\ DispatchIdle

\* executeScriptCheck is called; the timeout is computed and the Job built.
ScriptStart(t) ==
    /\ jpc = "idle"
    /\ jpc' = "create"
    /\ jTimeout' = scriptTimeoutOf(t)
    /\ UNCHANGED <<jCtxDone, jElapsed, jTick, jJob, jPoll, jDeletes, jReturn, notJobVars>>

\* The caller cancels ctx (or its deadline passes) while the call runs.
CtxCancel ==
    /\ jpc \in {"create", "poll", "logs", "cleanup"}
    /\ ~jCtxDone
    /\ jCtxDone' = TRUE
    /\ UNCHANGED <<jpc, jTimeout, jElapsed, jTick, jJob, jPoll, jDeletes, jReturn, notJobVars>>

\* Jobs(namespace).Create(ctx, job) succeeds.
JobCreate ==
    /\ jpc = "create"
    /\ requestIssued(jCtxDone)
    /\ jJob' = "running"
    /\ jpc' = "poll"
    /\ UNCHANGED <<jCtxDone, jTimeout, jElapsed, jTick, jPoll, jDeletes, jReturn, notJobVars>>

\* Create fails: return the error; no cleanup was installed.
JobCreateFails ==
    /\ jpc = "create"
    /\ jReturn' = pollErrorReturn("createFailed")
    /\ jpc' = "returned"
    /\ UNCHANGED <<jCtxDone, jTimeout, jElapsed, jTick, jJob, jPoll, jDeletes, notJobVars>>

\* The cluster: the Job completes or fails.
JobFinishes(outcome) ==
    /\ jJob = "running"
    /\ jJob' = outcome
    /\ UNCHANGED <<jpc, jCtxDone, jTimeout, jElapsed, jTick, jPoll, jDeletes, jReturn, notJobVars>>

\* The clock: one poll interval passes and the ticker fires.
TickerFires ==
    /\ jpc = "poll"
    /\ jElapsed < jTimeout
    /\ jElapsed' = jElapsed + 1
    /\ jTick' = TRUE
    /\ UNCHANGED <<jpc, jCtxDone, jTimeout, jJob, jPoll, jDeletes, jReturn, notJobVars>>

\* case <-ctx.Done()
PollCtxDone ==
    /\ jpc = "poll"
    /\ jCtxDone
    /\ jPoll' = [ready |-> FALSE, reason |-> "context cancelled", err |-> TRUE]
    /\ jpc' = afterPoll(jPoll')
    /\ jReturn' = pollErrorReturn("cancelled")
    /\ UNCHANGED <<jCtxDone, jTimeout, jElapsed, jTick, jJob, jDeletes, notJobVars>>

\* case <-deadline
PollDeadline ==
    /\ jpc = "poll"
    /\ jElapsed >= jTimeout
    /\ jPoll' = [ready |-> FALSE, reason |-> "timeout", err |-> FALSE]
    /\ jpc' = afterPoll(jPoll')
    /\ UNCHANGED <<jCtxDone, jTimeout, jElapsed, jTick, jJob, jDeletes, jReturn, notJobVars>>

\* case <-ticker.C, and the Get fails.
PollGetFails ==
    /\ jpc = "poll"
    /\ jTick
    /\ jTick' = FALSE
    /\ jPoll' = [ready |-> FALSE, reason |-> "", err |-> TRUE]
    /\ jpc' = afterPoll(jPoll')
    /\ jReturn' = pollErrorReturn("pollError")
    /\ UNCHANGED <<jCtxDone, jTimeout, jElapsed, jJob, jDeletes, notJobVars>>

\* case <-ticker.C, and the Get returns the Job: a terminal condition ends
\* the loop, otherwise the loop goes round.
PollGet ==
    /\ jpc = "poll"
    /\ jTick
    /\ requestIssued(jCtxDone)
    /\ jTick' = FALSE
    /\ IF jJob = "complete"
       THEN /\ jPoll' = [ready |-> TRUE, reason |-> "", err |-> FALSE]
            /\ jpc' = afterPoll(jPoll')
       ELSE IF jJob = "failed"
       THEN /\ jPoll' = [ready |-> FALSE, reason |-> "failed", err |-> FALSE]
            /\ jpc' = afterPoll(jPoll')
       ELSE UNCHANGED <<jPoll, jpc>>
    /\ UNCHANGED <<jCtxDone, jTimeout, jElapsed, jJob, jDeletes, jReturn, notJobVars>>

\* getJobPodLogs (a failure is not fatal) and the result built from
\* result.ready.
ReadLogs ==
    /\ jpc = "logs"
    /\ jReturn' = [Ready |-> jPoll.ready, err |-> FALSE,
                   path |-> IF jPoll.ready THEN "completed"
                            ELSE IF jPoll.reason = "timeout" THEN "timeout"
                            ELSE "failed"]
    /\ jpc' = "cleanup"
    /\ UNCHANGED <<jCtxDone, jTimeout, jElapsed, jTick, jJob, jPoll, jDeletes, notJobVars>>

\* The deferred function: Jobs(namespace).Delete(context.Background(),
\* jobName, ...), its error ignored; then the call returns.
Cleanup(deleted) ==
    /\ jpc = "cleanup"
    /\ IF requestIssued(deleteContext(jCtxDone))
       THEN /\ jDeletes' = Append(jDeletes, JobName)
            /\ jJob' = IF deleted THEN "deleted" ELSE jJob
       ELSE UNCHANGED <<jDeletes, jJob>>
    /\ jpc' = "returned"
    /\ UNCHANGED <<jCtxDone, jTimeout, jElapsed, jTick, jPoll, jReturn, notJobVars>>

JobNext ==
    \/ \E t \in TimeoutSeconds : ScriptStart(t)
    \/ CtxCancel
    \/ JobCreate
    \/ JobCreateFails
    \/ \E outcome \in {"complete", "failed"} : JobFinishes(outcome)
    \/ TickerFires
    \/ PollCtxDone
    \/ PollDeadline
    \/ PollGetFails
    \/ PollGet
    \/ ReadLogs
    \/ \E deleted \in BOOLEAN : Cleanup(deleted)

SpecJob == JobInit /\ [][JobNext]_vars

(***************************************************************************)
(* One dispatch of a dynamic check: the goroutine of Reconcile calls       *)
(* runResolvedDynamicCheck, which fetches the GateCheck and has            *)
(* Executor.Execute run its spec, and the loop over the results merges the *)
(* slot it wrote.                                                          *)
(***************************************************************************)
\* The GateCheck specs: a severity, a category, and one check type or none.
GateCheckSpecs ==
    [Severity : {"", SeverityCritical, SeverityWarning},
     Category : {"", "networking"},
     CheckType : CheckTypes \cup {NoCheckType}]

\* The resolved references to the GateCheck "ingress".
DynamicChecks ==
    { resolveInlineCheck([NoRef EXCEPT !.GateCheckRef = "ingress",
                                       !.Severity = sev, !.Category = cat],
                         defaultInterval) :
        sev \in RefSeverities, cat \in RefCategories }

DispatchInit ==
    /\ ResolveIdle
    /\ CallIdle
    /\ SchedIdle
    /\ ReconcileIdle
    /\ StoreIdle
    /\ RegistryIdle
    /\ JobIdle
    /\ HistIdle
    /\ dpc = "call"
    /\ dResolved \in DynamicChecks
    /\ \/ dGateChecks = EmptyMap
       \/ \E spec \in GateCheckSpecs : dGateChecks = [n \in {"ingress"} |-> spec]
    /\ dSlot = zeroCheckResult
    /\ dAcc = ZeroAcc

\* The goroutine: ResolveSeverityAndCategory, then runResolvedDynamicCheck.
DispatchRun(o) ==
    /\ dpc = "call"
    /\ dSlot' = runCheck(dResolved, dGateChecks, o)
    /\ dpc' = "ran"
    /\ UNCHANGED <<dResolved, dGateChecks, dAcc, notDispVars>>

\* The loop over results: the slot becomes a row, a record and counters.
DispatchMerge ==
    /\ dpc = "ran"
    /\ dAcc' = processResult(dAcc, dSlot, 0)
    /\ dpc' = "merged"
    /\ UNCHANGED <<dResolved, dGateChecks, dSlot, notDispVars>>

DispatchNext ==
    \/ \E o \in Outcomes : DispatchRun(o)
    \/ DispatchMerge

SpecDispatch == DispatchInit /\ [][DispatchNext]_vars

(***************************************************************************)
(* Properties of Reconcile.                                                *)
(***************************************************************************)
\* The rows of the categories built by the current Reconcile.
AllRows == flattenChecks(categories, 1)

RowCount(severity, status) ==
    Cardinality({ i \in DOMAIN AllRows :
                    /\ AllRows[i].Severity = severity
                    /\ AllRows[i].Status = status })

\* C1: after aggregation in any Reconcile cycle, over all rows (freshly run
\* and carried), with criticalTotal / criticalPassing the number of
\* critical rows / passing critical rows and warningFailing the number of
\* failing warning rows: the state is Unhealthy iff criticalPassing <
\* criticalTotal, Degraded iff criticalPassing = criticalTotal and
\* warningFailing > 0, and Healthy iff neither.
C1_StateFromCounters ==
    pc \in {"aggregated", "stored"} =>
        LET criticalPassing == RowCount(SeverityCritical, "Passing")
            criticalTotal == criticalPassing
                                 + RowCount(SeverityCritical, "Failing")
            warningFailing == RowCount(SeverityWarning, "Failing")
        IN  /\ Len(AllRows) = Len(results) + Len(schedule.carriedStatuses)
            /\ summary.CriticalTotal = criticalTotal
            /\ summary.CriticalPassing = criticalPassing
            /\ summary.WarningFailing = warningFailing
            /\ healthState = "Unhealthy" <=> criticalPassing < criticalTotal
            /\ healthState = "Degraded" <=>
                   (criticalPassing = criticalTotal /\ warningFailing > 0)
            /\ healthState = "Healthy" <=>
                   (criticalPassing = criticalTotal /\ warningFailing = 0)

\* A cycle that ran a check and carried another has aggregated a failing
\* critical row and a failing warning row.
C1_Witness ==
    /\ pc = "aggregated"
    /\ Len(results) > 0
    /\ Len(schedule.carriedStatuses) > 0
    /\ RowCount(SeverityCritical, "Failing") > 0
    /\ RowCount(SeverityWarning, "Failing") > 0
    /\ healthState = "Unhealthy"

\* Some profile the object refers to cannot be fetched.
MissingProfile ==
    \E i \in DOMAIN apiSpec.Profiles :
        apiSpec.Profiles[i].Name \notin DOMAIN ClusterProfiles

\* The interval of the object, or the fallback when it sets none.
EntityInterval ==
    IF apiSpec.Interval > 0 THEN apiSpec.Interval ELSE defaultInterval

\* C13: when a referenced GateProfile cannot be fetched, ResolveChecks
\* returns an error and no checks, and a Reconcile that fetched the object
\* returns at once without error and with requeueAfter the interval of the
\* object, having run no check; it writes ProfilesResolved=False with
\* reason ResolutionFailed into the status (persisted unless that status
\* update itself fails) and leaves the persisted rows, summary, state and
\* lastChecked, the store and the gauges as they were.
C13_ResolutionFailure ==
    [][ ( /\ pc = "idle" /\ crExists /\ MissingProfile
          /\ (ReconcileResolveFails \/ ReconcileStart) ) =>
        ( /\ \A r \in ResolveChecks(apiSpec, ClusterProfiles, EntityInterval) :
                r.err /\ r.checks = <<>>
          /\ pc' = "idle"
          /\ results' = <<>>
          /\ reconcileResult' =
                [RequeueAfter |-> EntityInterval, err |-> FALSE]
          /\ apiStatus'.Categories = apiStatus.Categories
          /\ apiStatus'.Summary = apiStatus.Summary
          /\ apiStatus'.State = apiStatus.State
          /\ apiStatus'.LastChecked = apiStatus.LastChecked
          /\ readinessState' = readinessState
          /\ metrics' = metrics
          /\ \/ /\ "ProfilesResolved" \in DOMAIN apiStatus'.Conditions
                /\ apiStatus'.Conditions["ProfilesResolved"] =
                      [Status |-> "False", Reason |-> "ResolutionFailed"]
                /\ \A t \in DOMAIN apiStatus.Conditions \ {"ProfilesResolved"} :
                      /\ t \in DOMAIN apiStatus'.Conditions
                      /\ apiStatus'.Conditions[t] = apiStatus.Conditions[t]
             \/ /\ events' = events + 1
                /\ apiStatus' = apiStatus ) ]_vars

\* The object was edited to refer to a profile that does not exist after
\* its checks had run: the rows are kept, the condition is False and the
\* requeue delay is the interval of the object.
C13_Witness ==
    /\ pc = "idle" /\ crExists /\ MissingProfile
    /\ apiStatus.Categories # <<>>
    /\ apiStatus.State # ""
    /\ "ProfilesResolved" \in DOMAIN apiStatus.Conditions
    /\ apiStatus.Conditions["ProfilesResolved"].Status = "False"
    /\ reconcileResult = [RequeueAfter |-> MaxInterval, err |-> FALSE]

\* Some row of the sequence has the severity and is Failing.
HasFailing(rows, severity) ==
    \E i \in DOMAIN rows :
        rows[i].Severity = severity /\ rows[i].Status = "Failing"

\* The rows of the persisted status.
PersistedRows == flattenChecks(apiStatus.Categories, 1)

\* C14: every category of the persisted status is Unhealthy if one of its
\* rows is critical and Failing, else Degraded if one of its rows is a
\* warning and Failing, else Healthy; and so is the cluster state over all
\* rows.  A failing info row therefore changes neither.
C14_CategoryState ==
    /\ \A i \in DOMAIN apiStatus.Categories :
          LET c == apiStatus.Categories[i]
          IN  c.State = IF HasFailing(c.Checks, SeverityCritical)
                        THEN "Unhealthy"
                        ELSE IF HasFailing(c.Checks, SeverityWarning)
                             THEN "Degraded" ELSE "Healthy"
    /\ apiStatus.Categories # <<>> =>
          apiStatus.State = IF HasFailing(PersistedRows, SeverityCritical)
                            THEN "Unhealthy"
                            ELSE IF HasFailing(PersistedRows, SeverityWarning)
                                 THEN "Degraded" ELSE "Healthy"

\* A persisted category that holds a failing info row and is Healthy, in
\* a cluster that is Healthy.
C14_Witness ==
    /\ apiStatus.State = "Healthy"
    /\ \E i \in DOMAIN apiStatus.Categories :
          /\ HasFailing(apiStatus.Categories[i].Checks, SeverityInfo)
          /\ apiStatus.Categories[i].State = "Healthy"

\* The number of rows of the persisted status with the severity, and of
\* those the number with the status.
PersistedCount(severity) ==
    Cardinality({ i \in DOMAIN PersistedRows :
                    PersistedRows[i].Severity = severity })

PersistedStatusCount(severity, status) ==
    Cardinality({ i \in DOMAIN PersistedRows :
                    /\ PersistedRows[i].Severity = severity
                    /\ PersistedRows[i].Status = status })

RECURSIVE SumOfTotals(_, _)
SumOfTotals(cats, i) ==
    IF i > Len(cats) THEN 0 ELSE cats[i].Total + SumOfTotals(cats, i + 1)

\* C15: in a persisted status with a summary, total = passing + failing =
\* the number of rows; criticalTotal and criticalPassing count the critical
\* rows and the passing critical rows, warningTotal and warningFailing the
\* warning rows and the failing warning rows (so criticalPassing <=
\* criticalTotal and warningFailing <= warningTotal); every category has
\* total = passing + failing = the number of its rows; and the totals of
\* the categories add up to the total of the summary.
C15_CountersConsistent ==
    apiStatus.Summary # <<>> =>
        LET sm == apiStatus.Summary[1]
            cats == apiStatus.Categories
        IN  /\ sm.Total = sm.Passing + sm.Failing
            /\ sm.Total = Len(PersistedRows)
            /\ sm.Passing = Cardinality({ i \in DOMAIN PersistedRows :
                                  PersistedRows[i].Status = "Passing" })
            /\ sm.CriticalTotal = PersistedCount(SeverityCritical)
            /\ sm.CriticalPassing =
                  PersistedStatusCount(SeverityCritical, "Passing")
            /\ sm.WarningTotal = PersistedCount(SeverityWarning)
            /\ sm.WarningFailing =
                  PersistedStatusCount(SeverityWarning, "Failing")
            /\ sm.CriticalPassing <= sm.CriticalTotal
            /\ sm.WarningFailing <= sm.WarningTotal
            /\ \A i \in DOMAIN cats :
                  /\ cats[i].Total = cats[i].Passing + cats[i].Failing
                  /\ cats[i].Total = Len(cats[i].Checks)
                  /\ cats[i].Failing =
                        Cardinality({ k \in DOMAIN cats[i].Checks :
                                        cats[i].Checks[k].Status = "Failing" })
            /\ SumOfTotals(cats, 1) = sm.Total

\* A persisted status of two categories with a passing warning row and a
\* failing row, one of them carried from an earlier cycle.
C15_Witness ==
    /\ apiStatus.Summary # <<>>
    /\ Len(apiStatus.Categories) = 2
    /\ apiStatus.Summary[1].Total = 2
    /\ apiStatus.Summary[1].Failing = 1
    /\ PersistedStatusCount(SeverityWarning, "Passing") = 1
    /\ \E i \in DOMAIN PersistedRows :
          PersistedRows[i].LastChecked < apiStatus.LastChecked

\* The rows named id in a sequence of rows.
RowsNamed(rows, id) == { rows[i] : i \in { k \in DOMAIN rows : rows[k].Name = id } }

\* The rows of the status that the status update of this step persists.
PersistedRowsAfter == flattenChecks(apiStatus'.Categories, 1)

\* C16: when a cycle persists its status, the row of every carried check
\* is the row the status held before (name, source, status, severity,
\* message and lastChecked alike), and every check executed in the cycle
\* has a row whose lastChecked is the now of the cycle.
C16_CarriedVerbatimFreshStamped ==
    [][ UpdateStatus =>
        ( /\ \A k \in DOMAIN schedule.carriedStatuses :
                LET id == schedule.carriedStatuses[k].Name
                IN  /\ Cardinality(RowsNamed(PersistedRows, id)) = 1
                    /\ RowsNamed(PersistedRowsAfter, id)
                          = RowsNamed(PersistedRows, id)
          /\ \A k \in DOMAIN schedule.dueChecks :
                LET id == schedule.dueChecks[k].Identifier
                IN  /\ Cardinality(RowsNamed(PersistedRowsAfter, id)) = 1
                    /\ \A r \in RowsNamed(PersistedRowsAfter, id) :
                          r.LastChecked = cycleNow /\ cycleNow = clock ) ]_vars

\* A persisted status in which one row was run in the last cycle and another
\* was carried with its earlier lastChecked and its message.
C16_Witness ==
    /\ pc = "idle" /\ crExists
    /\ reconcileResult.err = FALSE
    /\ \E i \in DOMAIN PersistedRows :
          PersistedRows[i].LastChecked = apiStatus.LastChecked
    /\ \E i \in DOMAIN PersistedRows :
          /\ PersistedRows[i].LastChecked < apiStatus.LastChecked
          /\ PersistedRows[i].Status = "Failing"

\* The identifiers that ResolveChecks returns for the object this cycle
\* fetched (the same set in every order of the returned slice).
ResolvedThisCycle ==
    UNION { { r.checks[i].Identifier : i \in DOMAIN r.checks } :
            r \in ResolveChecks(cr.Spec, ClusterProfiles, intervalOf(cr.Spec)) }

\* C17: when a cycle persists its status, the names of the rows of the
\* new status, and the keys of the checks that the store holds for the
\* cluster, are exactly the identifiers resolved in the cycle, each in one
\* row: rows of identifiers that are no longer resolved are gone and no
\* resolved identifier lacks a row.
C17_RowsAreResolvedIds ==
    [][ UpdateStatus =>
        ( /\ { PersistedRowsAfter[i].Name : i \in DOMAIN PersistedRowsAfter }
                = ResolvedThisCycle
          /\ Len(PersistedRowsAfter) = Cardinality(ResolvedThisCycle)
          /\ ClusterName \in DOMAIN readinessState'
          /\ DOMAIN readinessState'[ClusterName].Checks = ResolvedThisCycle ) ]_vars

\* A status was persisted for an object whose earlier rows named other
\* checks: the rows and the store name the two checks resolved now, one of
\* them carried, and not the one that was dropped.
C17_Witness ==
    /\ pc = "idle" /\ crExists /\ reconcileResult.err = FALSE
    /\ ClusterName \in DOMAIN readinessState
    /\ DOMAIN readinessState[ClusterName].Checks = {"dynamic:ingress", "etcd"}
    /\ { PersistedRows[i].Name : i \in DOMAIN PersistedRows }
          = {"dynamic:ingress", "etcd"}
    /\ \E i \in DOMAIN PersistedRows :
          PersistedRows[i].LastChecked < apiStatus.LastChecked

\* The state that the store reports for the cluster after this step, ""
\* when it holds no record.
StoreStateAfter ==
    IF ClusterName \in DOMAIN readinessState'
    THEN readinessState'[ClusterName].State ELSE ""

\* This step is the return of a Reconcile that fetched the object and
\* returns no error.
ReturnsWithoutError ==
    /\ crExists
    /\ ReconcileResolveFails \/ UpdateStatus \/ UpdateStatusFails
    /\ ~reconcileResult'.err

MetricsOfCycle ==
    /\ \A i \in DOMAIN results :
          LET res == results[i][1]
              key == <<res.name, ClusterName, res.severity, res.category>>
          IN  /\ key \in DOMAIN metrics.CheckReady
              /\ metrics.CheckReady[key] =
                    IF ~res.err /\ res.ready THEN 1 ELSE 0
    /\ \A i \in DOMAIN categories :
          LET key == <<categories[i].Category, ClusterName>>
          IN  /\ key \in DOMAIN metrics.CategoryReady
              /\ metrics.CategoryReady[key] =
                    IF categories[i].State = "Unhealthy" THEN 0 ELSE 1
    /\ ClusterName \in DOMAIN metrics.ClusterReady
    /\ metrics.ClusterReady[ClusterName] =
          IF healthState = "Unhealthy" THEN 0 ELSE 1
    /\ \A st \in HealthStates :
          /\ <<ClusterName, st>> \in DOMAIN metrics.ClusterHealthState
          /\ metrics.ClusterHealthState[<<ClusterName, st>>] =
                IF st = healthState THEN 1 ELSE 0

\* The store holds the record of the current cycle.
StoreOfCycle ==
    /\ ClusterName \in DOMAIN readinessState
    /\ readinessState[ClusterName].State = healthState
    /\ readinessState[ClusterName].Checks = healthChecks

\* C19: in a cycle that reaches publication the gauges are written first,
\* then the store, then the status: the step that writes the gauges
\* writes neither store nor status; when the store is updated every gauge
\* of the cycle has its value, and the step writes neither gauge nor
\* status; when the status update is called (and succeeds or fails) the
\* gauges and the store hold the values of the cycle and the step writes
\* neither of them.
C19_PublicationOrder ==
    [][ /\ Aggregate =>
              (readinessState' = readinessState /\ apiStatus' = apiStatus)
        /\ UpdateStore =>
              (MetricsOfCycle /\ metrics' = metrics /\ apiStatus' = apiStatus)
        /\ (UpdateStatus \/ UpdateStatusFails) =>
              ( /\ MetricsOfCycle /\ StoreOfCycle
                /\ metrics' = metrics /\ readinessState' = readinessState )
      ]_vars

\* The gauges and the store hold an Unhealthy cycle with two categories
\* while the persisted status is still the Healthy one of the cycle before.
C19_Witness ==
    /\ pc = "stored"
    /\ MetricsOfCycle /\ StoreOfCycle
    /\ healthState = "Unhealthy"
    /\ Len(categories) = 2
    /\ apiStatus.State = "Healthy"

\* The store's record and the cluster gauges report what the persisted
\* status says: the state, the counters, and status, severity and message
\* of every row.
ObserversAgree ==
    /\ ClusterName \in DOMAIN readinessState
    /\ readinessState[ClusterName].State = apiStatus.State
    /\ apiStatus.Summary # <<>>
    /\ \A f \in DOMAIN readinessState[ClusterName].Summary :
          readinessState[ClusterName].Summary[f] = apiStatus.Summary[1][f]
    /\ \A i \in DOMAIN PersistedRows :
          LET row == PersistedRows[i]
          IN  /\ row.Name \in DOMAIN readinessState[ClusterName].Checks
              /\ LET st == readinessState[ClusterName].Checks[row.Name]
                 IN  /\ st.Status = row.Status
                     /\ st.Severity = row.Severity
                     /\ st.Message = row.Message
    /\ ClusterName \in DOMAIN metrics.ClusterReady
    /\ metrics.ClusterReady[ClusterName] =
          IF apiStatus.State = "Unhealthy" THEN 0 ELSE 1
    /\ \A st \in HealthStates :
          /\ <<ClusterName, st>> \in DOMAIN metrics.ClusterHealthState
          /\ metrics.ClusterHealthState[<<ClusterName, st>>] =
                IF st = apiStatus.State THEN 1 ELSE 0

ReconcileReturns ==
    ReconcileGetFails \/ ReconcileResolveFails \/ UpdateStatus
        \/ UpdateStatusFails

\* C21 as claimed: Reconcile returns an error only when the final status
\* update fails; a failed fetch of the object, a failed resolution (with
\* or without a failed status write) and a cycle with failing checks
\* return nil.
C21_OnlyStatusPatchFails ==
    [][ (ReconcileGetFails \/ ReconcileResolveFails \/ UpdateStatus) =>
            ~reconcileResult'.err ]_vars

\* C21: Reconcile returns an error exactly when the final status update
\* fails or the fetch of the object fails for another reason than
\* NotFound; a NotFound, a failed resolution (with or without a failed
\* status write) and a cycle whose checks fail or return errors return
\* nil.
C21_ErrorsReturned ==
    [][ ReconcileReturns =>
          /\ reconcileResult'.err <=>
                (UpdateStatusFails \/ (ReconcileGetFails /\ crExists))
          /\ (ReconcileGetFails /\ ~crExists) => ~reconcileResult'.err
          /\ (ReconcileResolveFails /\ MissingProfile) =>
                   ~reconcileResult'.err
          /\ (ReconcileResolveFails /\ apiStatus' = apiStatus
                 /\ events' = events + 1) =>
                   ~reconcileResult'.err
          /\ (UpdateStatus /\ \E i \in DOMAIN results : results[i][1].err) =>
                   ~reconcileResult'.err ]_vars

\* The fetch of an object that exists and has a persisted state failed:
\* the error was returned.
C21_Witness ==
    /\ pc = "idle" /\ crExists
    /\ reconcileResult = [RequeueAfter |-> 0, err |-> TRUE]
    /\ apiStatus.State # ""
    /\ ClusterName \notin DOMAIN readinessState

\* The due check rc names a builtin that is not registered, or a GateCheck
\* that does not exist.
UnregisteredBuiltin(rc) == rc.IsBuiltin /\ rc.BuiltinName \notin DOMAIN registry
MissingGateCheck(rc) == ~rc.IsBuiltin /\ rc.GateCheckName \notin DOMAIN gateChecks

\* C22: whatever the checks of a cycle do, the cycle reaches aggregation
\* with one row for each executed check: Failing with message "unknown
\* check: <name>" for an unregistered builtin, Failing with "GateCheck CR
\* not found: <name>" for a missing GateCheck, Failing with "check error:
\* <err>" when the checker or the executor returned an error, and else
\* Passing or Failing with the message of its own result; no row depends
\* on the outcome of another check and no check is dropped.
C22_CheckFailuresBecomeRows ==
    pc \in {"aggregated", "stored"} =>
        /\ Len(AllRows) = Len(schedule.dueChecks) + Len(schedule.carriedStatuses)
        /\ \A i \in DOMAIN schedule.dueChecks :
              LET rc == schedule.dueChecks[i]
                  res == results[i][1]
                  rows == RowsNamed(AllRows, rc.Identifier)
              IN  /\ Cardinality(rows) = 1
                  /\ \A row \in rows :
                        IF UnregisteredBuiltin(rc)
                        THEN /\ row.Status = "Failing"
                             /\ row.Message = "unknown check: " \o rc.BuiltinName
                        ELSE IF MissingGateCheck(rc)
                        THEN /\ row.Status = "Failing"
                             /\ row.Message =
                                   "GateCheck CR not found: " \o rc.GateCheckName
                        ELSE IF res.err
                        THEN /\ row.Status = "Failing"
                             /\ row.Message = "check error: boom"
                        ELSE /\ row.Status =
                                   IF res.ready THEN "Passing" ELSE "Failing"
                             /\ row.Message = res.message

\* A status was persisted without error by a cycle in which a checker
\* returned an error and the GateCheck of the other check was missing.
C22_Witness ==
    /\ pc = "idle" /\ crExists /\ reconcileResult.err = FALSE
    /\ Len(PersistedRows) = 2
    /\ \E i \in DOMAIN PersistedRows :
          /\ PersistedRows[i].Message = "check error: boom"
          /\ PersistedRows[i].Status = "Failing"
          /\ PersistedRows[i].LastChecked = apiStatus.LastChecked
    /\ \E i \in DOMAIN PersistedRows :
          /\ PersistedRows[i].Message = "GateCheck CR not found: ingress"
          /\ PersistedRows[i].Status = "Failing"
          /\ PersistedRows[i].LastChecked = apiStatus.LastChecked

\* C23: a Reconcile for an object that no longer exists removes the
\* record of the object from the store, returns no error and no requeue
\* delay, and leaves the records of the other objects as they were; a
\* snapshot taken for /readyz afterwards does not list the object.
C23_NotFoundPurges ==
    [][ (ReconcileGetFails /\ ~crExists) =>
          /\ ClusterName \notin DOMAIN readinessState'
          /\ reconcileResult' = [RequeueAfter |-> 0, err |-> FALSE]
          /\ \A n \in DOMAIN readinessState \ {ClusterName} :
                /\ n \in DOMAIN readinessState'
                /\ readinessState'[n] = readinessState[n]
          /\ DOMAIN readinessState' = DOMAIN readinessState \ {ClusterName}
          /\ ClusterName \notin DOMAIN snapshot(readinessState')
          /\ OtherName \in DOMAIN snapshot(readinessState') ]_vars

\* The object was reconciled, published its state and was deleted; the
\* Reconcile that followed found nothing and the store holds the other
\* object only.
C23_Witness ==
    /\ pc = "idle" /\ ~crExists
    /\ events = 1
    /\ ClusterName \in DOMAIN metrics.ClusterReady
    /\ reconcileResult = [RequeueAfter |-> 0, err |-> FALSE]
    /\ readinessState = OtherReconciled

\* seq is in strictly ascending byte order of key(seq[i]).
Ascending(seq, key(_)) ==
    \A i \in 1..(Len(seq) - 1) : StringLess(key(seq[i]), key(seq[i + 1]))

\* C30: in the persisted status and in the status being published, the
\* categories are in strictly ascending order of category name and the rows
\* of each category in strictly ascending order of check name, whatever
\* order the checks were resolved in and whatever order their goroutines
\* ended in; a strict order leaves one arrangement for a given set of rows,
\* so equal inputs give equal orderings.
C30_SortedByName ==
    /\ Ascending(apiStatus.Categories, LAMBDA c : c.Category)
    /\ \A i \in DOMAIN apiStatus.Categories :
           Ascending(apiStatus.Categories[i].Checks, LAMBDA r : r.Name)
    /\ Ascending(categories, LAMBDA c : c.Category)
    /\ \A i \in DOMAIN categories :
           Ascending(categories[i].Checks, LAMBDA r : r.Name)

\* The status about to be patched holds a category with two rows that were
\* appended in descending order of name ("dynamic:ingress" was resolved and
\* carried before "dns"), and they stand in ascending order.
C30_Witness ==
    /\ pc = "stored"
    /\ Len(schedule.carriedStatuses) = 2
    /\ StringLess(schedule.carriedStatuses[2].Name,
                  schedule.carriedStatuses[1].Name)
    /\ \E i \in DOMAIN categories :
           /\ Len(categories[i].Checks) = 2
           /\ categories[i].Checks[1].Name = schedule.carriedStatuses[2].Name
           /\ categories[i].Checks[2].Name = schedule.carriedStatuses[1].Name

\* The status of the condition of the given type in the persisted status,
\* "" when the conditions hold none of that type.
ConditionStatus(type) ==
    IF type \in DOMAIN apiStatus.Conditions
    THEN apiStatus.Conditions[type].Status ELSE ""

\* C31: once a reconcile has published a status, the persisted conditions
\* hold Ready, True when the state is Healthy or Degraded and False when it
\* is Unhealthy, and Degraded, True exactly when a warning check is failing.
C31_ReadyAndDegradedConditions ==
    apiStatus.State # "" =>
        /\ ConditionStatus("Ready") =
               (IF apiStatus.State = "Unhealthy" THEN "False" ELSE "True")
        /\ ConditionStatus("Degraded") =
               (IF apiStatus.Summary[1].WarningFailing > 0 THEN "True" ELSE "False")

\* The goroutine of the i-th due check ends in this step.
Executes(i) ==
    /\ pc = "running"
    /\ i \in DOMAIN results
    /\ results[i] = <<>>
    /\ i \in DOMAIN results' /\ results'[i] # <<>>

\* The persisted rows named id that carry a timestamp.
StampedRows(id) ==
    {PersistedRows[k] : k \in {j \in DOMAIN PersistedRows :
                                  /\ PersistedRows[j].Name = id
                                  /\ PersistedRows[j].LastChecked # NilTime}}

\* C33 as stated: a check is executed only if it was never executed or its
\* interval has elapsed since its previous execution.
C33_NeverRedundant ==
    [][\A i \in DOMAIN results :
           LET rc == schedule.dueChecks[i]
           IN  (Executes(i) /\ rc.Identifier \in DOMAIN lastExecuted)
                   => cycleNow - lastExecuted[rc.Identifier] >= rc.Interval]_vars

\* C33 amended: a check is executed only if the persisted status holds no
\* timestamped row for it or its interval has elapsed since that row's
\* timestamp; so a check whose previous execution is the one its persisted
\* row records is not executed before its interval has elapsed since then.
C33_PersistedResultsPreventRedundant ==
    [][\A i \in DOMAIN results :
           LET rc == schedule.dueChecks[i]
           IN  Executes(i)
                   => /\ \A row \in StampedRows(rc.Identifier) :
                             cycleNow - row.LastChecked >= rc.Interval
                      /\ ( /\ rc.Identifier \in DOMAIN lastExecuted
                           /\ \E row \in StampedRows(rc.Identifier) :
                                  row.LastChecked = lastExecuted[rc.Identifier] )
                             => cycleNow - lastExecuted[rc.Identifier]
                                    >= rc.Interval]_vars

\* A check is dispatched a second time at the instant of its previous
\* execution: the status patch of that cycle failed and the retry found no
\* row for it.
C33_Witness ==
    /\ pc = "running"
    /\ reconcileResult.err
    /\ \E i \in DOMAIN results :
           /\ results[i] = <<>>
           /\ schedule.dueChecks[i].Identifier \in DOMAIN lastExecuted
           /\ lastExecuted[schedule.dueChecks[i].Identifier] = cycleNow
           /\ StampedRows(schedule.dueChecks[i].Identifier) = {}

\* C34: aggregation starts only when every goroutine of the cycle has
\* ended; a goroutine writes its own slot once, with the result of its own
\* check, and leaves the other slots, the position of Reconcile and its
\* return value alone, whatever its check returned; so aggregation counts
\* one row for every due check and one for every carried row.
C34_JoinBeforeAggregate ==
    [][/\ (pc = "running" /\ pc' = "aggregated")
              => /\ Len(results) = Len(schedule.dueChecks)
                 /\ \A i \in DOMAIN schedule.dueChecks :
                        /\ results[i] # <<>>
                        /\ results[i][1].name = schedule.dueChecks[i].Identifier
                        /\ schedule.dueChecks[i].Identifier \in DOMAIN healthChecks'
                 /\ summary'.Total = Len(schedule.dueChecks)
                                       + Len(schedule.carriedStatuses)
       /\ \A i \in DOMAIN results :
              (pc = "running" /\ results[i] # <<>>)
                  => (i \in DOMAIN results' /\ results'[i] = results[i])
       /\ \A i \in DOMAIN results :
              Executes(i)
                  => /\ \A j \in DOMAIN results \ {i} : results'[j] = results[j]
                     /\ results'[i][1].name = schedule.dueChecks[i].Identifier
                     /\ pc' = "running"
                     /\ reconcileResult' = reconcileResult]_vars

\* Two checks were dispatched, the run of one returned an error, and the
\* aggregation holds a row for each.
C34_Witness ==
    /\ pc = "aggregated"
    /\ Len(schedule.dueChecks) = 2
    /\ \E i \in DOMAIN results : results[i][1].err
    /\ \E i \in DOMAIN results : ~results[i][1].err
    /\ summary.Total = 2
    /\ \A i \in DOMAIN results : results[i][1].name \in DOMAIN healthChecks

\* How many due checks ran with severity sev, and how many carried rows
\* hold it.
RanWith(sev) ==
    Cardinality({i \in DOMAIN results : results[i][1].severity = sev})

CarriedWith(sev) ==
    Cardinality({k \in DOMAIN schedule.carriedStatuses :
                    schedule.carriedStatuses[k].Severity = sev})

\* The severity and category resolved in this cycle for the identifier id.
ResolvedNow(id) ==
    UNION { { ResolveSeverityAndCategory(r.checks[j], gateChecks) :
                j \in {k \in DOMAIN r.checks : r.checks[k].Identifier = id} } :
            r \in ResolveChecks(cr.Spec, ClusterProfiles, intervalOf(cr.Spec)) }

\* C35: in the aggregation, a carried check keeps the row the status held,
\* nested under the category it was nested under, the record for the store
\* takes that row's severity and that category, and the counters and the
\* category rollup count it with them, whatever the spec resolves to now;
\* a check that was run has the severity and category resolved in this
\* cycle.
C35_CarriedKeepsPriorSeverity ==
    [][(pc = "running" /\ pc' = "aggregated") =>
        /\ \A k \in DOMAIN schedule.carriedStatuses :
               LET cs == schedule.carriedStatuses[k]
                   cat == Lookup(existingCategoryLookup, cs.Name)
               IN  /\ \E c \in DOMAIN categories' :
                          /\ categories'[c].Category = cat
                          /\ \E j \in DOMAIN categories'[c].Checks :
                                 categories'[c].Checks[j] = cs
                   /\ healthChecks'[cs.Name] =
                          [Status |-> cs.Status, Message |-> cs.Message,
                           Severity |-> cs.Severity, Category |-> cat]
        /\ summary'.CriticalTotal
               = RanWith(SeverityCritical) + CarriedWith(SeverityCritical)
        /\ summary'.WarningTotal
               = RanWith(SeverityWarning) + CarriedWith(SeverityWarning)
        /\ \A c \in DOMAIN categories' :
               categories'[c].State = "Unhealthy" <=>
                   \E j \in DOMAIN categories'[c].Checks :
                       /\ categories'[c].Checks[j].Severity = SeverityCritical
                       /\ categories'[c].Checks[j].Status = "Failing"
        /\ \A i \in DOMAIN results :
               LET now_ == ResolveSeverityAndCategory(schedule.dueChecks[i],
                                                      gateChecks)
               IN  /\ healthChecks'[results[i][1].name].Severity = now_.sev
                   /\ healthChecks'[results[i][1].name].Category = now_.cat]_vars

\* The aggregation holds a carried row whose severity is not the one the
\* spec resolves to in this cycle.
C35_Witness ==
    /\ pc = "aggregated"
    /\ \E k \in DOMAIN schedule.carriedStatuses :
           LET cs == schedule.carriedStatuses[k]
           IN  /\ healthChecks[cs.Name].Severity = cs.Severity
               /\ ResolvedNow(cs.Name) # {}
               /\ \A sc \in ResolvedNow(cs.Name) : sc.sev # cs.Severity

\* C36: the status that a cycle persists after a successful resolution
\* holds no ProfilesResolved condition with status False, whether or not
\* the spec names any profile.
C36_FalseNeverOutlivesResolution ==
    [][UpdateStatus =>
          ~ ( /\ "ProfilesResolved" \in DOMAIN apiStatus'.Conditions
              /\ apiStatus'.Conditions["ProfilesResolved"].Status = "False" )]_vars

\* C37: the record of the cluster leaves the store only when the object
\* does not exist; a reconcile whose fetch fails while the object exists
\* leaves the store as it was.
C37_RemovedOnlyWhenDeleted ==
    [][ /\ (ClusterName \in DOMAIN readinessState
                /\ ClusterName \notin DOMAIN readinessState') => ~crExists
        /\ (ReconcileGetFails /\ crExists) => readinessState' = readinessState
      ]_vars

\* The store as it is when it holds the record of ClusterName alone.
OnlyThisEntity == [n \in {ClusterName} |-> readinessState[ClusterName]]

\* The published values of a cycle whose resolved list is empty.
PublishedAsHealthyWithoutChecks ==
    /\ summary = ZeroSummary
    /\ healthState = "Healthy"
    /\ cr.Status.State = "Healthy"
    /\ cr.Status.Summary = <<ZeroSummary>>
    /\ cr.Status.Categories = <<>>
    /\ metrics.ClusterReady[ClusterName] = 1
    /\ metrics.ClusterHealthState[<<ClusterName, "Healthy">>] = 1
    /\ readinessState[ClusterName].State = "Healthy"
    /\ DOMAIN readinessState[ClusterName].Checks = {}
    /\ \A f \in DOMAIN readinessState[ClusterName].Summary :
          readinessState[ClusterName].Summary[f] = 0
    /\ readyzResponse(snapshot(OnlyThisEntity)).Code = StatusOK
    /\ \A c \in CategoryFilters, v \in SeverityFilters :
          (c # "" \/ v # "") =>
              \A f \in filterSnapshot(snapshot(OnlyThisEntity), c, v) :
                  /\ f[ClusterName].State = "Unhealthy"
                  /\ readyzResponse(f).Code = StatusServiceUnavailable

\* C40: a cycle whose resolved check list is empty publishes zero counters,
\* state Healthy and cluster-ready gauge 1; an unfiltered /readyz over a
\* store that holds this entity alone answers 200, every filtered query
\* reports the entity Unhealthy; and the Reconcile that persists the status
\* returns requeueAfter 0.
C40_NoChecksHealthyNoRequeue ==
    /\ [](pc = "stored" /\ ResolvedThisCycle = {} =>
             PublishedAsHealthyWithoutChecks)
    /\ [][(pc = "stored" /\ ResolvedThisCycle = {} /\ pc' = "idle") =>
             reconcileResult'.RequeueAfter = 0]_vars

\* An entity without checks was reconciled and persisted as Healthy with
\* zero counters, without a requeue, next to the record of another entity.
C40_Witness ==
    /\ pc = "idle" /\ crExists
    /\ apiSpec = EmptySpec
    /\ reconcileResult = [RequeueAfter |-> 0, err |-> FALSE]
    /\ apiStatus.State = "Healthy"
    /\ apiStatus.Summary = <<ZeroSummary>>
    /\ ClusterName \in DOMAIN readinessState
    /\ readinessState[ClusterName].State = "Healthy"
    /\ DOMAIN readinessState[ClusterName].Checks = {}
    /\ metrics.ClusterReady[ClusterName] = 1

(***************************************************************************)
(* Properties of CheckSchedule.                                            *)
(***************************************************************************)
InDue(rc) == \E i \in DOMAIN due : due[i] = rc
InCarried(id) == \E i \in DOMAIN carried : carried[i].Name = id
ResolvedIds == {schedResolved[i].Identifier : i \in DOMAIN schedResolved}
\* The prior rows named id.
RowsOf(id) ==
    {existingStatuses[i] : i \in {k \in DOMAIN existingStatuses :
                                     existingStatuses[k].Name = id}}
\* The check rc is neither new nor stale at now.
\* The time left until the carried check rc is due again.
Remaining(rc) ==
    LET row == CHOOSE r \in RowsOf(rc.Identifier) : TRUE
    IN  rc.Interval - (now - row.LastChecked)
CarriedChecks ==
    {schedResolved[i] : i \in {k \in DOMAIN schedResolved :
                                  InCarried(schedResolved[k].Identifier)}}
MinInterval ==
    CHOOSE m \in {schedResolved[i].Interval : i \in DOMAIN schedResolved} :
        \A i \in DOMAIN schedResolved : m <= schedResolved[i].Interval

\* C2: every resolved check is in due or names a row of carried, never both
\* and never neither, and every carried row names a resolved check.
C2_DueXorCarried ==
    schedpc = "returned" =>
        /\ \A i \in DOMAIN schedResolved :
              InDue(schedResolved[i]) # InCarried(schedResolved[i].Identifier)
        /\ \A i \in DOMAIN carried : carried[i].Name \in ResolvedIds
        /\ Len(due) + Len(carried) = Len(schedResolved)

C2_Witness ==
    /\ schedpc = "returned"
    /\ Len(due) = 1
    /\ Len(carried) = 1
    /\ \E i \in DOMAIN existingStatuses :
          existingStatuses[i].Name \notin ResolvedIds

\* C3 as stated: for a non-empty resolved list, 0 <= nextRequeue <= the
\* least interval of the resolved checks.
C3_RequeueAtMostMinInterval ==
    (schedpc = "returned" /\ Len(schedResolved) > 0) =>
        (0 <= nextRequeue /\ nextRequeue <= MinInterval)

\* C3 amended: for a non-empty resolved list, 0 <= nextRequeue; when no
\* check is carried nextRequeue <= the least interval of the resolved
\* checks, and when some check is carried nextRequeue is at most the time
\* left to each carried check, whatever the intervals of the due checks.
C3_RequeueBound ==
    (schedpc = "returned" /\ Len(schedResolved) > 0) =>
        /\ 0 <= nextRequeue
        /\ carried = <<>> => nextRequeue <= MinInterval
        /\ \A rc \in CarriedChecks : nextRequeue <= Remaining(rc)

\* One check is due, one is carried, and the requeue delay exceeds the
\* interval of the due one.
C3_Witness ==
    /\ schedpc = "returned"
    /\ Len(due) = 1
    /\ Len(carried) = 1
    /\ nextRequeue > due[1].Interval

\* The instant at which the resolved check rc is due again after this cycle:
\* its interval after now when it is run in this cycle, its interval after
\* the timestamp of its row when the row is carried.
NextDue(rc) ==
    IF InDue(rc) THEN now + rc.Interval
    ELSE LET row == CHOOSE r \in RowsOf(rc.Identifier) : TRUE
         IN  row.LastChecked + rc.Interval

\* C32 as stated: the requeue comes no later than the instant at which any
\* resolved check, run in this cycle or carried, is due again.
C32_RequeueBeforeAnyCheckDue ==
    (schedpc = "returned" /\ Len(schedResolved) > 0) =>
        \A i \in DOMAIN schedResolved :
            now + nextRequeue <= NextDue(schedResolved[i])

\* C32 amended: the requeue comes no later than the instant at which any
\* carried check is due again, and exactly when the earliest of them is;
\* when no check is carried it comes exactly when the check of the shortest
\* interval is due again.  A check run in this cycle beside a carried one is
\* not considered.
C32_RequeueBeforeCarriedDue ==
    (schedpc = "returned" /\ Len(schedResolved) > 0) =>
        /\ \A rc \in CarriedChecks : now + nextRequeue <= NextDue(rc)
        /\ carried # <<>> =>
               \E rc \in CarriedChecks : now + nextRequeue = NextDue(rc)
        /\ carried = <<>> =>
               /\ \A i \in DOMAIN schedResolved :
                      now + nextRequeue <= NextDue(schedResolved[i])
               /\ \E i \in DOMAIN schedResolved :
                      now + nextRequeue = NextDue(schedResolved[i])

\* A check is run in this cycle beside a carried one, and the requeue comes
\* after the instant at which the check that is run is due again.
C32_Witness ==
    /\ schedpc = "returned"
    /\ carried # <<>>
    /\ \E i \in DOMAIN due : now + nextRequeue > NextDue(due[i])
    /\ \E rc \in CarriedChecks : now + nextRequeue = NextDue(rc)

\* C4: a check is due iff no prior row has its identifier, or the row has
\* no lastChecked, or now - lastChecked >= its interval; otherwise its row
\* is carried and the check is not due.
C4_DueIffNewOrStale ==
    schedpc = "returned" =>
        \A i \in DOMAIN schedResolved :
            LET rc == schedResolved[i]
                stale == \/ RowsOf(rc.Identifier) = {}
                         \/ \E row \in RowsOf(rc.Identifier) :
                               \/ row.LastChecked = NilTime
                               \/ now - row.LastChecked >= rc.Interval
            IN  /\ InDue(rc) <=> stale
                /\ ~stale => /\ InCarried(rc.Identifier)
                             /\ \A row \in RowsOf(rc.Identifier) :
                                   \E k \in DOMAIN carried : carried[k] = row

\* A check whose elapsed time equals its interval exactly is due.
C4_Witness ==
    /\ schedpc = "returned"
    /\ \E i \in DOMAIN due : \E row \in RowsOf(due[i].Identifier) :
          /\ row.LastChecked # NilTime
          /\ now - row.LastChecked = due[i].Interval
    /\ carried # <<>>

\* C5: nextRequeue is the least interval - elapsed of the carried checks
\* when a check is carried, the shortest resolved interval when the list is
\* non-empty and nothing is carried, and 0 when the list is empty.
C5_RequeueValue ==
    schedpc = "returned" =>
        /\ CarriedChecks # {} =>
              /\ \E rc \in CarriedChecks : nextRequeue = Remaining(rc)
              /\ \A rc \in CarriedChecks : nextRequeue <= Remaining(rc)
        /\ (CarriedChecks = {} /\ Len(schedResolved) > 0) =>
              nextRequeue = MinInterval
        /\ Len(schedResolved) = 0 => nextRequeue = 0

\* Two checks are carried with different times left.
C5_Witness ==
    /\ schedpc = "returned"
    /\ Len(carried) = 2
    /\ \E a, b \in CarriedChecks :
          Remaining(a) < Remaining(b) /\ nextRequeue = Remaining(a)

(***************************************************************************)
(* Properties of ResolveChecks.                                            *)
(***************************************************************************)
\* The refs of crSpec in the order ResolveChecks reaches them, each with the
\* Source it declares.
RECURSIVE ProfileDeclarations(_)
ProfileDeclarations(i) ==
    IF i > Len(crSpec.Profiles) THEN <<>>
    ELSE LET name == crSpec.Profiles[i].Name
             checks == IF name \in DOMAIN gateProfiles
                       THEN gateProfiles[name] ELSE <<>>
         IN  [j \in 1..Len(checks) |->
                 [kind |-> "profile", source |-> "profile:" \o name,
                  ref |-> checks[j]]]
             \o ProfileDeclarations(i + 1)

Declarations ==
    ProfileDeclarations(1)
    \o [j \in 1..Len(crSpec.Checks) |->
           [kind |-> "inline", source |-> "inline", ref |-> crSpec.Checks[j]]]

\* Declarations i and j, i before j, are enabled and are the only two
\* declarations of their common identifier.
OnlyTwo(i, j) ==
    /\ i \in DOMAIN Declarations /\ j \in DOMAIN Declarations /\ i < j
    /\ IsEnabled(Declarations[i].ref) /\ IsEnabled(Declarations[j].ref)
    /\ Identifier(Declarations[i].ref) = Identifier(Declarations[j].ref)
    /\ \A k \in DOMAIN Declarations \ {i, j} :
          Identifier(Declarations[k].ref) # Identifier(Declarations[i].ref)

\* The values a ref declares; empty where it declares none.
DeclaredSeverity(ref) == IF ref.Severity = Nil THEN "" ELSE ref.Severity
DeclaredInterval(ref) ==
    IF ref.Interval = NilTime \/ ref.Interval <= 0
    THEN defaultInterval ELSE ref.Interval

EntriesOf(id) ==
    {k \in DOMAIN resolvedChecks : resolvedChecks[k].Identifier = id}

\* C6: the identifiers of the list ResolveChecks returns are pairwise
\* distinct, each being the builtin name or "dynamic:<gateCheckRef>", for
\* specs of any length with any repetition of names.
C6_DistinctIdentifiers ==
    rpc = "done" =>
        /\ \A i, j \in DOMAIN result :
              i # j => result[i].Identifier # result[j].Identifier
        /\ \A i \in DOMAIN result :
              result[i].Identifier =
                  IF result[i].IsBuiltin THEN result[i].BuiltinName
                  ELSE "dynamic:" \o result[i].GateCheckName

C6_Witness ==
    /\ rpc = "done"
    /\ Len(result) = 2
    /\ \E i \in DOMAIN result : result[i].IsBuiltin
    /\ \E i \in DOMAIN result : ~result[i].IsBuiltin

\* C7: when a profile ref and an enabled inline check name the same
\* identifier, the resolved entry has source "inline"; severity, category
\* and config each take the inline value where the inline check sets one
\* and the profile ref's value where it does not.
C7_InlineOverridesProfile ==
    callpc = "returned" =>
        \A i, j \in DOMAIN Declarations :
            ( /\ OnlyTwo(i, j)
              /\ Declarations[i].kind = "profile"
              /\ Declarations[j].kind = "inline" ) =>
            LET p == Declarations[i].ref
                c == Declarations[j].ref
            IN  /\ Cardinality(EntriesOf(Identifier(c))) = 1
                /\ \A k \in EntriesOf(Identifier(c)) :
                      /\ resolvedChecks[k].Source = "inline"
                      /\ resolvedChecks[k].Severity =
                            IF c.Severity = Nil THEN DeclaredSeverity(p)
                            ELSE c.Severity
                      /\ resolvedChecks[k].Category =
                            IF c.Category = "" THEN p.Category
                            ELSE c.Category
                      /\ resolvedChecks[k].Config =
                            IF c.Config = Nil THEN p.Config ELSE c.Config
                      /\ (c.Interval # NilTime /\ c.Interval > 0) =>
                            resolvedChecks[k].Interval = c.Interval

\* Profile sets severity critical and category networking, inline sets
\* severity warning only.
C7_Witness ==
    /\ callpc = "returned"
    /\ Len(Declarations) = 2
    /\ OnlyTwo(1, 2)
    /\ Declarations[1].kind = "profile" /\ Declarations[2].kind = "inline"
    /\ Declarations[1].ref.Severity = SeverityCritical
    /\ Declarations[1].ref.Category = "networking"
    /\ Declarations[2].ref.Severity = SeverityWarning
    /\ Declarations[2].ref.Category = ""
    /\ \A k \in DOMAIN resolvedChecks :
          /\ resolvedChecks[k].Severity = SeverityWarning
          /\ resolvedChecks[k].Category = "networking"

\* C8: when an enabled inline check overrides a profile entry and sets no
\* interval, the resolved interval is the one the profile ref set.
C8_IntervalInherited ==
    callpc = "returned" =>
        \A i, j \in DOMAIN Declarations :
            ( /\ OnlyTwo(i, j)
              /\ Declarations[i].kind = "profile"
              /\ Declarations[j].kind = "inline"
              /\ Declarations[j].ref.Interval = NilTime ) =>
            \A k \in EntriesOf(Identifier(Declarations[j].ref)) :
                resolvedChecks[k].Interval =
                    DeclaredInterval(Declarations[i].ref)

\* C9: when profiles A then B each hold an enabled ref for the same
\* identifier and no inline check exists, one entry is returned for it, with
\* source "profile:B" and B's value in every field B's ref sets.
C9_LaterProfileWins ==
    callpc = "returned" =>
        \A i, j \in DOMAIN Declarations :
            ( /\ OnlyTwo(i, j)
              /\ Declarations[i].kind = "profile"
              /\ Declarations[j].kind = "profile"
              /\ Declarations[i].source # Declarations[j].source
              /\ crSpec.Checks = <<>> ) =>
            LET b == Declarations[j].ref
            IN  /\ Cardinality(EntriesOf(Identifier(b))) = 1
                /\ \A k \in EntriesOf(Identifier(b)) :
                      /\ resolvedChecks[k].Source = Declarations[j].source
                      /\ b.Severity # Nil =>
                            resolvedChecks[k].Severity = b.Severity
                      /\ b.Category # "" =>
                            resolvedChecks[k].Category = b.Category
                      /\ b.Config # Nil =>
                            resolvedChecks[k].Config = b.Config
                      /\ (b.Interval # NilTime /\ b.Interval > 0) =>
                            resolvedChecks[k].Interval = b.Interval

\* Profile A declares warning, profile B declares critical.
C9_Witness ==
    /\ callpc = "returned"
    /\ Len(crSpec.Profiles) = 2
    /\ Len(Declarations) = 2
    /\ OnlyTwo(1, 2)
    /\ Declarations[1].ref.Severity = SeverityWarning
    /\ Declarations[2].ref.Severity = SeverityCritical
    /\ Len(resolvedChecks) = 1
    /\ resolvedChecks[1].Severity = SeverityCritical
    /\ resolvedChecks[1].Source = "profile:B"

\* The entry merge(earlier, later) would give for identifier id: the
\* later declaration's value in each field it sets, the earlier one's
\* where it leaves the field empty.
IsMergeOf(e, earlier, later) ==
    /\ e.Severity = IF later.Severity = Nil THEN DeclaredSeverity(earlier)
                    ELSE later.Severity
    /\ e.Category = IF later.Category = "" THEN earlier.Category
                    ELSE later.Category
    /\ e.Config = IF later.Config = Nil THEN earlier.Config ELSE later.Config

\* C10 as stated: any two declarations of one identifier, from profiles or
\* inline, give the single entry merge(earlier, later).
C10_AlwaysMerged ==
    callpc = "returned" =>
        \A i, j \in DOMAIN Declarations :
            OnlyTwo(i, j) =>
            /\ Cardinality(EntriesOf(Identifier(Declarations[j].ref))) = 1
            /\ \A k \in EntriesOf(Identifier(Declarations[j].ref)) :
                  IsMergeOf(resolvedChecks[k], Declarations[i].ref,
                            Declarations[j].ref)

\* C10 amended: two declarations of one identifier give a single entry;
\* it is merge(earlier, later) when the later one is inline, and the later
\* ref alone, its empty fields left empty, when the later one is a profile
\* ref.
C10_MergedWhenInline ==
    callpc = "returned" =>
        \A i, j \in DOMAIN Declarations :
            OnlyTwo(i, j) =>
            /\ Cardinality(EntriesOf(Identifier(Declarations[j].ref))) = 1
            /\ \A k \in EntriesOf(Identifier(Declarations[j].ref)) :
                  IF Declarations[j].kind = "inline"
                  THEN IsMergeOf(resolvedChecks[k], Declarations[i].ref,
                                 Declarations[j].ref)
                  ELSE IsMergeOf(resolvedChecks[k], NoRef,
                                 Declarations[j].ref)

\* A later profile ref that sets no severity follows an earlier one that
\* does: the entry has no severity.
C10_Witness ==
    /\ callpc = "returned"
    /\ Len(Declarations) = 2
    /\ OnlyTwo(1, 2)
    /\ Declarations[2].kind = "profile"
    /\ Declarations[1].ref.Severity = SeverityCritical
    /\ Declarations[2].ref.Severity = Nil
    /\ Len(resolvedChecks) = 1
    /\ resolvedChecks[1].Severity = ""

\* Declarations i and j, i before j, are the only two declarations of
\* their common identifier.
OnlyPair(i, j) ==
    /\ i \in DOMAIN Declarations /\ j \in DOMAIN Declarations /\ i < j
    /\ Identifier(Declarations[i].ref) = Identifier(Declarations[j].ref)
    /\ \A k \in DOMAIN Declarations \ {i, j} :
          Identifier(Declarations[k].ref) # Identifier(Declarations[i].ref)

\* C11 as stated: when any ref, in a profile or inline, has enabled=false,
\* the returned list holds no entry for its identifier, whatever the other
\* refs of the spec are.
C11_DisabledNeverResolved ==
    (callpc = "returned" /\ ~resolveErr) =>
        \A i \in DOMAIN Declarations :
            ~IsEnabled(Declarations[i].ref) =>
                EntriesOf(Identifier(Declarations[i].ref)) = {}

\* C11 amended: when a ref has enabled=false and no enabled ref processed
\* after it (later in its profile, in a later profile, or inline) names
\* the same identifier, the returned list holds no entry for the
\* identifier, whatever the refs before it are.
C11_LastDisabledWins ==
    (callpc = "returned" /\ ~resolveErr) =>
        \A i \in DOMAIN Declarations :
            ( /\ ~IsEnabled(Declarations[i].ref)
              /\ \A j \in DOMAIN Declarations :
                    (j > i /\ IsEnabled(Declarations[j].ref)) =>
                        Identifier(Declarations[j].ref)
                            # Identifier(Declarations[i].ref) ) =>
            EntriesOf(Identifier(Declarations[i].ref)) = {}

\* A profile ref adds dns and a later ref of a profile disables it: nothing
\* is returned.
C11_Witness ==
    /\ callpc = "returned"
    /\ ~resolveErr
    /\ Len(Declarations) = 2
    /\ OnlyPair(1, 2)
    /\ Declarations[2].kind = "profile"
    /\ IsEnabled(Declarations[1].ref)
    /\ ~IsEnabled(Declarations[2].ref)
    /\ resolvedChecks = <<>>

\* C12 as stated: when a profile ref disables an identifier and an inline
\* check with enabled true or unset names it, the returned list holds no
\* entry for the identifier.
C12_InlineDoesNotReenable ==
    (callpc = "returned" /\ ~resolveErr) =>
        \A i, j \in DOMAIN Declarations :
            ( /\ OnlyPair(i, j)
              /\ Declarations[i].kind = "profile"
              /\ ~IsEnabled(Declarations[i].ref)
              /\ Declarations[j].kind = "inline"
              /\ IsEnabled(Declarations[j].ref) ) =>
            EntriesOf(Identifier(Declarations[j].ref)) = {}

\* C12 amended: when a profile ref disables an identifier and an inline
\* check with enabled true or unset names it, the returned list holds one
\* entry for the identifier: the inline check alone, with source "inline",
\* its own severity, category and config (empty where it sets none) and
\* its own interval or the default one.
C12_InlineReenables ==
    (callpc = "returned" /\ ~resolveErr) =>
        \A i, j \in DOMAIN Declarations :
            ( /\ OnlyPair(i, j)
              /\ Declarations[i].kind = "profile"
              /\ ~IsEnabled(Declarations[i].ref)
              /\ Declarations[j].kind = "inline"
              /\ IsEnabled(Declarations[j].ref) ) =>
            LET c == Declarations[j].ref
            IN  /\ Cardinality(EntriesOf(Identifier(c))) = 1
                /\ \A k \in EntriesOf(Identifier(c)) :
                      /\ resolvedChecks[k].Source = "inline"
                      /\ IsMergeOf(resolvedChecks[k], NoRef, c)
                      /\ resolvedChecks[k].Interval = DeclaredInterval(c)

\* Profile A disables the GateCheck ingress, an inline check names it as a
\* warning: the check is resolved from the inline check.
C12_Witness ==
    /\ callpc = "returned"
    /\ Len(Declarations) = 2
    /\ OnlyPair(1, 2)
    /\ Declarations[1].kind = "profile"
    /\ ~IsEnabled(Declarations[1].ref)
    /\ Declarations[2].kind = "inline"
    /\ Declarations[2].ref.Severity = SeverityWarning
    /\ Len(resolvedChecks) = 1
    /\ resolvedChecks[1].Identifier = "dynamic:ingress"
    /\ resolvedChecks[1].Source = "inline"
    /\ resolvedChecks[1].Severity = SeverityWarning

\* The refs of the profile that crSpec.Profiles[p] names.
ProfileChecksOf(p) ==
    IF crSpec.Profiles[p].Name \in DOMAIN gateProfiles
    THEN gateProfiles[crSpec.Profiles[p].Name] ELSE <<>>

\* Profile ref p lists ref c in its excludeChecks.
ExcludedBy(p, c) ==
    \E e \in DOMAIN crSpec.Profiles[p].ExcludeChecks :
        crSpec.Profiles[p].ExcludeChecks[e] = ExcludeName(c)

\* An enabled ref of another profile than p, or an enabled inline check,
\* declares the identifier.
AddedElsewhere(p, id) ==
    \/ \E q \in DOMAIN crSpec.Profiles \ {p} :
          \E k \in DOMAIN ProfileChecksOf(q) :
              /\ IsEnabled(ProfileChecksOf(q)[k])
              /\ Identifier(ProfileChecksOf(q)[k]) = id
    \/ \E k \in DOMAIN crSpec.Checks :
          IsEnabled(crSpec.Checks[k]) /\ Identifier(crSpec.Checks[k]) = id

\* C39: a ref of a profile whose name or gateCheckRef the ProfileRef lists
\* in excludeChecks is not contributed by that profile: unless another
\* profile or an inline check adds its identifier, the returned list holds
\* no entry for it.
C39_ExcludedNotContributed ==
    (callpc = "returned" /\ ~resolveErr) =>
        \A p \in DOMAIN crSpec.Profiles :
            \A j \in DOMAIN ProfileChecksOf(p) :
                LET c == ProfileChecksOf(p)[j]
                IN  (ExcludedBy(p, c) /\ ~AddedElsewhere(p, Identifier(c))) =>
                        EntriesOf(Identifier(c)) = {}

(***************************************************************************)
(* Properties of the store and of /readyz.                                 *)
(***************************************************************************)
\* The records the store holds, and those the snapshot of the handler
\* refers to.
StoreRecords == Deref(rsStates, rsHeap)
SnapshotRecords == Deref(hSnap, rsHeap)

\* The map holds a record and none of its records is Unhealthy.
SomeAndNoneUnhealthy(m) ==
    DOMAIN m # {} /\ \A n \in DOMAIN m : m[n].State # "Unhealthy"

\* C24: after any sequence of Update and Remove, IsReady is true if and
\* only if the store holds a record and none is Unhealthy; snapshot hands
\* the handler the records the store holds at that moment, and a request
\* without filters is answered 200 if and only if those records exist and
\* none is Unhealthy, and 503 otherwise (so 503 for an empty store).
C24_ReadyIff ==
    [][ /\ IsReady(StoreRecords) <=> SomeAndNoneUnhealthy(StoreRecords)
        /\ IsReady(StoreRecords') <=> SomeAndNoneUnhealthy(StoreRecords')
        /\ (hpc = "idle" /\ hpc' = "snapshot") => SnapshotRecords' = StoreRecords
        /\ (hpc' = "responded" /\ hCategoryFilter' = "" /\ hSeverityFilter' = "") =>
              /\ hResp'[1].Code \in {StatusOK, StatusServiceUnavailable}
              /\ hResp'[1].Code = StatusOK <=>
                    SomeAndNoneUnhealthy(SnapshotRecords')
              /\ hResp'[1].Clusters = SnapshotRecords' ]_vars

\* After a later update the store holds a Healthy and a Degraded
\* record, and a request without filters was answered 200 with both.
C24_Witness ==
    /\ hpc = "responded" /\ hCategoryFilter = "" /\ hSeverityFilter = ""
    /\ DOMAIN hSnap = StoreNames
    /\ hResp[1].Code = StatusOK
    /\ hResp[1].State = "Degraded"
    /\ IsReady(StoreRecords)
    /\ \E n \in DOMAIN rsStates : rsStates[n] # hSnap[n]


\* The request of the handler carries a filter.
Filtered == hCategoryFilter # "" \/ hSeverityFilter # ""

\* The checks of the record of n in the snapshot that match every filter
\* the request gives.
Matching(n) ==
    LET checks == SnapshotRecords[n].Checks
    IN  [c \in { d \in DOMAIN checks :
                   /\ hCategoryFilter = "" \/ checks[d].Category = hCategoryFilter
                   /\ hSeverityFilter = "" \/ checks[d].Severity = hSeverityFilter }
           |-> checks[c]]

\* The rule of the driver over a map of checks.
DriverRule(checks) ==
    IF \E c \in DOMAIN checks :
          ~checks[c].Ready /\ checks[c].Severity = "critical"
    THEN "Unhealthy"
    ELSE IF \E c \in DOMAIN checks :
               ~checks[c].Ready /\ checks[c].Severity = "warning"
         THEN "Degraded"
         ELSE "Healthy"

\* C25 as claimed: in the response to a request with filters every
\* record of the snapshot appears with exactly its matching checks and
\* with the state the rule of the driver gives for them.
C25_RecomputedByDriverRule ==
    (hpc = "responded" /\ Filtered) =>
        \A n \in DOMAIN hSnap :
            /\ n \in DOMAIN hResp[1].Clusters
            /\ hResp[1].Clusters[n].Checks = Matching(n)
            /\ hResp[1].Clusters[n].State = DriverRule(Matching(n))

\* C25: the step that answers a request with filters leaves the store
\* and its records as they are, and its response lists every record of
\* the snapshot with exactly its matching checks; where at least one
\* check matches, the state in the response is the one the rule of the
\* driver gives for the matching checks, whatever state was stored.
C25_RecomputedWhenMatching ==
    [][ (hpc = "snapshot" /\ hpc' = "responded" /\ Filtered) =>
          /\ rsStates' = rsStates /\ rsHeap' = rsHeap
          /\ DOMAIN hResp'[1].Clusters = DOMAIN hSnap
          /\ \A n \in DOMAIN hSnap :
                /\ hResp'[1].Clusters[n].Checks = Matching(n)
                /\ DOMAIN Matching(n) # {} =>
                      hResp'[1].Clusters[n].State = DriverRule(Matching(n)) ]_vars

\* A record stored as Unhealthy for its failing critical check answers a
\* request for the category of its passing warning check with Healthy
\* and 200.
C25_Witness ==
    /\ hpc = "responded"
    /\ hCategoryFilter = "security" /\ hSeverityFilter = ""
    /\ DOMAIN hSnap = {ClusterName}
    /\ SnapshotRecords[ClusterName].State = "Unhealthy"
    /\ DOMAIN hResp[1].Clusters[ClusterName].Checks = {"vault"}
    /\ hResp[1].Clusters[ClusterName].State = "Healthy"
    /\ hResp[1].Code = StatusOK


\* C26: when the filters of a request leave a record of the snapshot with
\* no matching check, the response gives that record the state Unhealthy
\* and no checks, and the request is answered 503 with state Unhealthy,
\* whatever state the record was stored with.
C26_NoMatchIsUnhealthy ==
    (hpc = "responded" /\ Filtered) =>
        \A n \in DOMAIN hSnap :
            DOMAIN Matching(n) = {} =>
                /\ hResp[1].Clusters[n].State = "Unhealthy"
                /\ DOMAIN hResp[1].Clusters[n].Checks = {}
                /\ hResp[1].Code = StatusServiceUnavailable
                /\ hResp[1].State = "Unhealthy"

\* Both records are stored Healthy and the first has two passing checks;
\* the request filters on a severity that only the first has, and is
\* answered 503.
C26_Witness ==
    /\ hpc = "responded"
    /\ hCategoryFilter = "" /\ hSeverityFilter = "warning"
    /\ DOMAIN hSnap = StoreNames
    /\ \A n \in StoreNames : SnapshotRecords[n].State = "Healthy"
    /\ DOMAIN Matching(ClusterName) = {"vault"}
    /\ hResp[1].Clusters[ClusterName].State = "Healthy"
    /\ DOMAIN SnapshotRecords[OtherName].Checks = {"dns"}
    /\ hResp[1].Clusters[OtherName].State = "Unhealthy"
    /\ hResp[1].Code = StatusServiceUnavailable


\* The records that single calls of Update write.
WrittenRecords ==
    { newClusterState(args.state, args.checks, args.summary,
                      args.categorySummaries) : args \in UpdateArgs }

\* C27: under every interleaving of Update and Remove with a request, each
\* record that the store holds and each record that the snapshot of the
\* handler refers to is one that a single Update wrote (state, summary,
\* category summaries and checks of one call); and from the moment
\* snapshot returns until the handler returns, the map it returned and
\* the records behind it stay as they were, whatever the driver updates
\* or removes.
C27_SnapshotIsolated ==
    [][ /\ \A n \in DOMAIN rsStates' : StoreRecords'[n] \in WrittenRecords
        /\ \A n \in DOMAIN hSnap' : SnapshotRecords'[n] \in WrittenRecords
        /\ (hpc # "idle" /\ hpc' # "idle") =>
              /\ hSnap' = hSnap
              /\ SnapshotRecords' = SnapshotRecords ]_vars

\* After snapshot returned both records, the driver replaced the first
\* with another state and removed the second; the snapshot still refers
\* to the two records it copied.
C27_Witness ==
    /\ hpc = "snapshot"
    /\ DOMAIN hSnap = StoreNames
    /\ DOMAIN rsStates = {ClusterName}
    /\ rsStates[ClusterName] # hSnap[ClusterName]
    /\ StoreRecords[ClusterName].State # SnapshotRecords[ClusterName].State
    /\ SnapshotRecords[OtherName].State = "Unhealthy"

(***************************************************************************)
(* Properties of the registry.                                             *)
(***************************************************************************)
\* The calls of Register that returned, as <<goroutine, index>>.
Returned == {gi \in Goroutines \X (1..MaxRegistrations) : gi[2] <= Len(regLog[gi[1]])}

\* The returned calls that registered a checker named n / that panicked on it.
Succeeded(n) ==
    {gi \in Returned : /\ regLog[gi[1]][gi[2]].Checker.Name = n
                       /\ ~regLog[gi[1]][gi[2]].Panicked}

Panicked(n) ==
    {gi \in Returned : /\ regLog[gi[1]][gi[2]].Checker.Name = n
                       /\ regLog[gi[1]][gi[2]].Panicked}

\* Goroutine g returns from Register in this step.
RegisterReturns(g) == regpc[g] # "idle" /\ regpc'[g] = "idle"

\* Among the calls for one name that returned, at most one succeeded, exactly
\* one once any returned and no insertion is still under way, and the name
\* is bound to the checker of that call.
OneSucceeds ==
    \A n \in CheckerNames :
        /\ Cardinality(Succeeded(n)) <= 1
        /\ \A gi \in Succeeded(n) :
               Get(regRegistry, n) = <<regLog[gi[1]][gi[2]].Checker, TRUE>>
        /\ Panicked(n) # {} => existsIn(regRegistry, n)
        /\ (Panicked(n) # {} /\ \A g \in Goroutines : regpc[g] # "inserted")
               => Cardinality(Succeeded(n)) = 1

\* C28: a call of Register for a name that is already bound panics and
\* leaves the registry unchanged, a call for an unbound name binds it and
\* does not panic, a bound name stays bound to the checker registered first
\* (so Get keeps returning it), and of the calls for one name, racing or
\* not, exactly one succeeds.
C28_RegisterOnce ==
    [][/\ \A n \in CheckerNames :
              existsIn(regRegistry, n) => Get(regRegistry', n) = Get(regRegistry, n)
       /\ \A g \in Goroutines :
              (regpc[g] = "locked" /\ existsIn(regRegistry, regArg[g].Name))
                  => /\ regRegistry' = regRegistry
                     /\ regpc'[g] \notin {"inserted", "idle"}
       /\ \A g \in Goroutines :
              RegisterReturns(g)
                  => /\ regRegistry' = regRegistry
                     /\ regLog'[g][Len(regLog'[g])].Panicked
                            = (Get(regRegistry, regArg[g].Name) # <<regArg[g], TRUE>>)
       /\ OneSucceeds']_vars

\* Both goroutines registered a checker named "dns": one call succeeded, the
\* other panicked, and Get returns the checker of the first.
C28_Witness ==
    /\ Cardinality(Succeeded("dns")) = 1
    /\ Cardinality(Panicked("dns")) >= 1
    /\ \E g \in Goroutines : \E h \in Goroutines \ {g} :
           /\ <<g, 1>> \in Succeeded("dns")
           /\ <<h, 1>> \in Panicked("dns")
           /\ Get(regRegistry, "dns") = <<regLog[g][1].Checker, TRUE>>

(***************************************************************************)
(* Properties of executeScriptCheck.                                       *)
(***************************************************************************)
\* The Job was created by this call.
JobCreated == jJob # "none"

\* C29: when executeScriptCheck has returned after creating the Job, it has
\* issued exactly one delete of that Job, on every exit path (completed,
\* failed, timeout, poll error, cancelled context), and not before the
\* cleanup; when the creation failed it has issued no delete and returned
\* an error.
C29_DeleteOnEveryExit ==
    /\ (jpc = "returned" /\ JobCreated)
           => /\ jDeletes = <<JobName>>
              /\ jReturn.path \in {"completed", "failed", "timeout",
                                   "pollError", "cancelled"}
    /\ (jpc = "returned" /\ ~JobCreated)
           => jDeletes = <<>> /\ jReturn.err /\ jReturn.path = "createFailed"
    /\ jpc \in {"idle", "create", "poll", "logs", "cleanup"} => jDeletes = <<>>

\* The call returned because its context was cancelled while it polled, and
\* the delete of the Job was issued all the same.
C29_Witness ==
    /\ jpc = "returned"
    /\ jCtxDone
    /\ jReturn.path = "cancelled"
    /\ jDeletes = <<JobName>>

(***************************************************************************)
(* Properties of the dispatch of a dynamic check.                          *)
(***************************************************************************)
\* The GateCheck of the dispatched check exists and its spec populates no
\* check type.
NoTypePopulated ==
    /\ dResolved.GateCheckName \in DOMAIN dGateChecks
    /\ dGateChecks[dResolved.GateCheckName].CheckType \notin CheckTypes

\* C38: Execute on a spec with no check type returns an error and a result
\* that is not ready, whatever the checks of the other types would return;
\* the slot of such a dispatch holds the error, and its merge records a
\* Failing row and a Failing record and counts no passing check.
C38_NoCheckTypeFails ==
    NoTypePopulated =>
        /\ \A o \in Outcomes :
               LET r == Execute(dGateChecks[dResolved.GateCheckName], o)
               IN  r.err /\ ~r.Ready
        /\ dpc \in {"ran", "merged"} => dSlot.err /\ ~dSlot.ready
        /\ dpc = "merged" =>
               /\ dAcc.healthChecks[dResolved.Identifier].Status = "Failing"
               /\ dAcc.summary.Passing = 0 /\ dAcc.summary.Failing = 1
               /\ \A c \in DOMAIN dAcc.categoryMap :
                      \A j \in DOMAIN dAcc.categoryMap[c].checks :
                          /\ dAcc.categoryMap[c].checks[j].Status = "Failing"
                          /\ dAcc.categoryMap[c].checks[j].Message
                                 = "check error: boom"

\* A GateCheck without a check type was dispatched and merged as a Failing
\* row.
C38_Witness ==
    /\ dpc = "merged"
    /\ NoTypePopulated
    /\ dAcc.summary.Failing = 1
    /\ dAcc.healthChecks[dResolved.Identifier].Status = "Failing"

====
